---- MODULE Spec2Model ----
(***************************************************************************)
(* Model of the evaluation engine of german-consumer-queries (Go).         *)
(*                                                                         *)
(* Go strings are TLA+ strings (TLC evaluates Len, \o, SubSeq on them).    *)
(* A Go map[string]bool whose stored values are all true is the set of its *)
(* keys; a lookup m[k] of a missing key yields false, i.e. k \notin m.     *)
(* A number decoded into a float64 field of ParseResponse is the exact      *)
(* rational [num, den] (den > 0); flatten only tests it against 0 and      *)
(* prints it.  A float64 computed by the scoring arithmetic is an IEEE 754 *)
(* binary64 value, and +, * and / round to nearest, ties to even, as the   *)
(* Go code does.                                                          *)
(***************************************************************************)
EXTENDS Integers, Sequences, FiniteSets, TLC

VARIABLES
    fIn,      \* SpecFlatten: the ParseResponse handed to flatten
    fOut,     \* SpecFlatten: the set flatten returned for fIn
    fVar,     \* SpecFlatten: a second ParseResponse derived from fIn
    fVarOut,  \* SpecFlatten: the set flatten returned for fVar
    fpc,      \* SpecFlatten: "input", "flat", "reordered", "duplicated"
    pred,     \* SpecScore: the prediction handed to scoreAgainstGT
    gt,       \* SpecScore: the reference handed to scoreAgainstGT
    q,        \* SpecScore: QueryScores of scoreAgainstGT(pred, gt), or NoScore
    qSwap,    \* SpecScore: QueryScores of scoreAgainstGT(gt, pred), or NoScore
    frame,    \* SpecScore: the locals of the scoreAgainstGT(pred, gt) call
    qs,       \* SpecSlots: the (pred, gt) pairs to feed, in order
    accAll,   \* SpecSlots: one acc fed qs[1], qs[2], ... by addSlots
    nAll,     \* SpecSlots: how many pairs accAll has been fed
    accPrev,  \* SpecSlots: accAll as it was before its latest addSlots call
    accRev,   \* SpecSlots: one acc fed the same pairs in reverse order
    nRev,     \* SpecSlots: how many pairs accRev has been fed
    accEach,  \* SpecSlots: accEach[i] is a fresh acc fed qs[i] alone
    mWork,    \* SpecMetrics: the (parse, ground-truth item, latency) runs of one provider
    mFed,     \* SpecMetrics: how many runs of mWork the accumulator has been fed
    mAcc,     \* SpecMetrics: the provider's acc
    mOut,     \* SpecMetrics: <<mAcc.metrics()>> once finalized, else <<>>
    kPred,    \* SpecMatch: the prediction handed to matchesAnyAcceptable
    kAccepts, \* SpecMatch: the acceptable list handed to matchesAnyAcceptable
    kOut,     \* SpecMatch: <<result>> once called, else <<>>
    results,      \* SpecEval: the stored runs decoded from the results file
    gtItems,      \* SpecEval: the corpus decoded from the ground-truth file
    wantPerQuery, \* SpecEval: whether the request carries per_query=1
    epc,          \* SpecEval: "idle", "start", "loop", "done", "raw"
    gtMap,        \* SpecEval: query text -> GroundTruthItem
    openAcc,      \* SpecEval: the acc of provider openai
    claudeAcc,    \* SpecEval: the acc of provider claude
    perQuery,     \* SpecEval: the per-query rows built so far
    ri,           \* SpecEval: how many stored runs the loop has passed
    ePrev,        \* SpecEval: openAcc, claudeAcc, perQuery before the latest run
    resp,         \* SpecEval: <<EvalResponse>> once encoded, else <<>>
    wantRaw,        \* SpecEval: whether the request carries raw=1
    resultsMissing, \* SpecEval: whether reading the results file fails
    eStatus,        \* SpecEval: HTTP status of the answer, 0 before it
    eRawBody,       \* SpecEval: <<file content>> written by raw mode, else <<>>
    xIn,      \* SpecExtract: the text handed to extractJSONObject
    xOut,     \* SpecExtract: <<result>> once called, else <<>>
    pReq,       \* SpecParse: the request being served (method, body, query_de, provider)
    pKeys,      \* SpecParse: the providers whose API key is set in the environment
    pProducer,  \* SpecParse: what CompleteJSON of each provider returns
    pCalls,     \* SpecParse: CompleteJSON calls made per provider for pReq
    pStatus,    \* SpecParse: HTTP status of the answer, 0 before the first request
    pBody,      \* SpecParse: <<MultiParseResponse>> of a 200 answer, else <<>>
    runLog,     \* SpecParse: the decoded content of data/results.json
    runLogPrev, \* SpecParse: runLog as it was when pReq arrived
    pClock,     \* SpecParse: the wall clock
    pServed,    \* SpecParse: how many requests have been answered
    file,       \* SpecStore: data/results.json: [ok, runs, size], ok = FALSE when
                \*            its bytes do not decode
    fileGt,     \* SpecStore: the corpus in data/groundtruth.json
    log0,       \* SpecStore: the log the file held at the start
    fileHist,   \* SpecStore: the logs the file has held so far
    sPc,        \* SpecStore: per StoreResult call "call", "read", "opened", "returned"
    sArgs,      \* SpecStore: per StoreResult call its query, resp and latency
    sData,      \* SpecStore: per StoreResult call the results it marshalled
    sNow,       \* SpecStore: the wall clock
    vPc,        \* SpecStore: the evaluation request: "idle", "read", "loaded", "done"
    vAfter,     \* SpecStore: the StoreResult calls that had returned when it started
    vSaw,       \* SpecStore: the results the evaluation request decoded
    vGt,        \* SpecStore: the corpus the evaluation request decoded
    vResp,      \* SpecStore: <<EvalResponse>> once encoded, else <<>>
    cRuns,      \* SpecConc: the results every request decodes
    cGt,        \* SpecConc: the corpus every request decodes
    heap,       \* SpecConc: the accumulators allocated so far, by reference
    cPc,        \* SpecConc: per request "start", "loop", "done"
    cMap,       \* SpecConc: per request its gtMap
    cRefs,       \* SpecConc: per request the references openAcc and claudeAcc
    cI,         \* SpecConc: per request the runs it has gone through
    cResp       \* SpecConc: per request <<EvalResponse>> once encoded, else <<>>

flatVars == <<fIn, fOut, fVar, fVarOut, fpc>>

scoreVars == <<pred, gt, q, qSwap, frame>>

slotVars == <<qs, accAll, nAll, accPrev, accRev, nRev, accEach>>

metricVars == <<mWork, mFed, mAcc, mOut>>

matchVars == <<kPred, kAccepts, kOut>>

evalVars == <<results, gtItems, wantPerQuery, epc, gtMap, openAcc, claudeAcc, perQuery,
              ri, ePrev, resp, wantRaw, resultsMissing, eStatus, eRawBody>>

extractVars == <<xIn, xOut>>

parseVars == <<pReq, pKeys, pProducer, pCalls, pStatus, pBody, runLog, runLogPrev, pClock,
               pServed>>

storeVars == <<file, fileGt, log0, fileHist, sPc, sArgs, sData, sNow,
               vPc, vAfter, vSaw, vGt, vResp>>

\* the variables of the HTTP service around the engine
concVars == <<cRuns, cGt, heap, cPc, cMap, cRefs, cI, cResp>>

serviceVars == <<parseVars, storeVars, concVars>>

vars == <<flatVars, scoreVars, slotVars, metricVars, matchVars, evalVars, extractVars,
          serviceVars>>

(***************************************************************************)
(* Bounds of the model.                                                    *)
(***************************************************************************)
MaxTags == 2      \* longest tag array of a filter category in an input

MaxQueries == 2   \* most (pred, gt) pairs fed to one accumulator

(***************************************************************************)
(* The decoded numbers of a ParseResponse, as exact rationals.             *)
(***************************************************************************)
F(n, d) == [num |-> n, den |-> d]

FZero == F(0, 1)

FIsZero(x) == x.num = 0

Abs(n) == IF n < 0 THEN -n ELSE n

\* nearest integer of a non-negative rational n/d, halves to even (strconv)
RoundHalfEven(n, d) ==
    LET fl  == n \div d
        rem == n % d
    IN  IF 2 * rem < d THEN fl
        ELSE IF 2 * rem > d THEN fl + 1
        ELSE IF fl % 2 = 0 THEN fl ELSE fl + 1

(***************************************************************************)
(* Natural numbers of any size: little-endian limbs in base 2^15, without  *)
(* leading zero limbs (0 is the empty sequence).                           *)
(***************************************************************************)
Base == 2^15

Pow2(k) == 2^k

RECURSIVE BigNorm(_)
BigNorm(a) ==
    IF a = <<>> THEN <<>>
    ELSE IF a[Len(a)] = 0 THEN BigNorm(SubSeq(a, 1, Len(a) - 1))
    ELSE a

RECURSIVE BigFromNat(_)
BigFromNat(n) == IF n = 0 THEN <<>> ELSE <<n % Base>> \o BigFromNat(n \div Base)

RECURSIVE BigToNat(_)
BigToNat(a) == IF a = <<>> THEN 0 ELSE a[1] + Base * BigToNat(Tail(a))

BigOne == <<1>>

BigCmp(a, b) ==
    IF Len(a) # Len(b) THEN (IF Len(a) < Len(b) THEN -1 ELSE 1)
    ELSE LET diff == {i \in 1..Len(a) : a[i] # b[i]}
         IN  IF diff = {} THEN 0
             ELSE LET i == CHOOSE j \in diff : \A k \in diff : k <= j
                  IN  IF a[i] < b[i] THEN -1 ELSE 1

RECURSIVE BigAddC(_, _, _)
BigAddC(a, b, c) ==
    IF a = <<>> /\ b = <<>> THEN (IF c = 0 THEN <<>> ELSE <<c>>)
    ELSE LET s == (IF a = <<>> THEN 0 ELSE a[1]) + (IF b = <<>> THEN 0 ELSE b[1]) + c
         IN  <<s % Base>> \o BigAddC(IF a = <<>> THEN <<>> ELSE Tail(a),
                                     IF b = <<>> THEN <<>> ELSE Tail(b), s \div Base)

BigAdd(a, b) == BigAddC(a, b, 0)

\* a - b for a >= b
RECURSIVE BigSubB(_, _, _)
BigSubB(a, b, c) ==
    IF a = <<>> THEN <<>>
    ELSE LET s == a[1] - (IF b = <<>> THEN 0 ELSE b[1]) - c
         IN  <<IF s < 0 THEN s + Base ELSE s>>
               \o BigSubB(Tail(a), IF b = <<>> THEN <<>> ELSE Tail(b), IF s < 0 THEN 1 ELSE 0)

BigSub(a, b) == BigNorm(BigSubB(a, b, 0))

\* a * k for 0 <= k < Base
RECURSIVE BigMulSmallC(_, _, _)
BigMulSmallC(a, k, c) ==
    IF a = <<>> THEN (IF c = 0 THEN <<>> ELSE <<c>>)
    ELSE LET s == a[1] * k + c
         IN  <<s % Base>> \o BigMulSmallC(Tail(a), k, s \div Base)

BigMulSmall(a, k) == IF k = 0 THEN <<>> ELSE BigMulSmallC(a, k, 0)

BigShiftLimbs(a, n) == IF a = <<>> THEN <<>> ELSE [i \in 1..n |-> 0] \o a

RECURSIVE BigMul(_, _)
BigMul(a, b) ==
    IF b = <<>> THEN <<>>
    ELSE BigAdd(BigMulSmall(a, b[1]), BigShiftLimbs(BigMul(a, Tail(b)), 1))

\* a * 2^k: each limb takes the low bits of its own limb and the high bits
\* of the limb below
BigShl(a, k) ==
    LET sh == Pow2(k % 15)
    IN  BigShiftLimbs(
            BigNorm([i \in 1..(Len(a) + 1) |->
                        (IF i <= Len(a) THEN (a[i] * sh) % Base ELSE 0)
                          + (IF i > 1 THEN (a[i - 1] * sh) \div Base ELSE 0)]),
            k \div 15)

\* the quotient of a by d, 0 < d < Base, most significant limb first
RECURSIVE BigDivSmallR(_, _, _, _)
BigDivSmallR(a, d, i, r) ==
    IF i = 0 THEN [q |-> <<>>, r |-> r]
    ELSE LET cur  == r * Base + a[i]
             rest == BigDivSmallR(a, d, i - 1, cur % d)
         IN  [q |-> rest.q \o <<cur \div d>>, r |-> rest.r]

BigDivSmall(a, d) ==
    LET res == BigDivSmallR(a, d, Len(a), 0)
    IN  [q |-> BigNorm(res.q), r |-> res.r]

\* floor(a / 2^k)
BigShr(a, k) ==
    LET sh == Pow2(k % 15)
        \* each limb takes the high bits of its own limb and the low bits of
        \* the limb above
        Bits(dropped) ==
            BigNorm([i \in 1..Len(dropped) |->
                        (dropped[i] \div sh)
                          + (IF i < Len(dropped)
                             THEN (dropped[i + 1] % sh) * (Base \div sh) ELSE 0)])
    IN  Bits(IF k \div 15 >= Len(a) THEN <<>> ELSE SubSeq(a, (k \div 15) + 1, Len(a)))

RECURSIVE BitLenSmall(_)
BitLenSmall(n) == IF n = 0 THEN 0 ELSE 1 + BitLenSmall(n \div 2)

BigBitLen(a) == IF a = <<>> THEN 0 ELSE 15 * (Len(a) - 1) + BitLenSmall(a[Len(a)])

BigIsOdd(a) == a # <<>> /\ a[1] % 2 = 1

RECURSIVE LowZeroBitsSmall(_)
LowZeroBitsSmall(n) == IF n % 2 = 1 THEN 0 ELSE 1 + LowZeroBitsSmall(n \div 2)

\* the number of trailing zero bits of a > 0
BigLowZeroBits(a) ==
    LET i == CHOOSE j \in 1..Len(a) : a[j] # 0 /\ \A k \in 1..(j - 1) : a[k] = 0
    IN  15 * (i - 1) + LowZeroBitsSmall(a[i])

\* the next quotient limb of long division: the largest dg with b * dg <= cur,
\* counted down from an estimate that is never below it
RECURSIVE BigDivDigit(_, _, _)
BigDivDigit(cur, b, est) ==
    IF BigCmp(BigMulSmall(b, est), cur) > 0 THEN BigDivDigit(cur, b, est - 1) ELSE est

\* one step of long division: the quotient limb dg of cur by b, cur < b * Base,
\* and the remainder; the top limb of b is >= Base / 2
BigDivStep(cur, b) ==
    LET n == Len(b)
        Estimate(top2) == IF top2 \div b[n] >= Base THEN Base - 1 ELSE top2 \div b[n]
    IN  CHOOSE st \in
            { [dg |-> dg, rem |-> BigSub(cur, BigMulSmall(b, dg))] :
                dg \in { BigDivDigit(cur, b,
                            Estimate((IF Len(cur) > n THEN cur[n + 1] * Base ELSE 0)
                                       + (IF Len(cur) >= n THEN cur[n] ELSE 0))) } } : TRUE

\* long division, one quotient limb per step: limbs i, i-1, .., 1 of a are
\* brought down into the remainder rem < b; quo holds the limbs found so far
RECURSIVE BigDivLimbs(_, _, _, _, _)
BigDivLimbs(a, b, i, rem, quo) ==
    IF i = 0 THEN [q |-> quo, r |-> rem]
    ELSE CHOOSE res \in
             { BigDivLimbs(a, b, i - 1, st.rem, <<st.dg>> \o quo) :
                 st \in {BigDivStep(BigNorm(<<a[i]>> \o rem), b)} } : TRUE

\* quotient and remainder of a by b > 0
BigDivMod(a, b) ==
    LET d == 15 - BitLenSmall(b[Len(b)])
        \* the top limbs of a2 that are fewer than the limbs of b are below b:
        \* they start the remainder
        top(a2) == IF Len(a2) < Len(b) THEN Len(a2) ELSE Len(b) - 1
    IN  CHOOSE out \in
            { [q |-> BigNorm(res.q), r |-> BigShr(res.r, d)] :
                res \in { BigDivLimbs(a2, BigShl(b, d), Len(a2) - top(a2),
                                      SubSeq(a2, Len(a2) - top(a2) + 1, Len(a2)), <<>>) :
                            a2 \in {BigShl(a, d)} } } : TRUE

(***************************************************************************)
(* float64: nan, or the value m * 2^e with m = 0 (and e = 0) or            *)
(* 2^52 <= m < 2^53.  Only non-negative finite values and NaN occur.       *)
(***************************************************************************)
DZero == [nan |-> FALSE, m |-> <<>>, e |-> 0]

DNaN == [nan |-> TRUE, m |-> <<>>, e |-> 0]

DIsZero(d) == ~d.nan /\ d.m = <<>>

\* the double nearest (ties to even) to (Q + f) * 2^ex, where 0 <= f < 1 and
\* sticky tells f # 0; Q has at least 54 bits when sticky
RoundToDouble(Q, sticky, ex) ==
    LET n == BigBitLen(Q)
        \* the rounded significand m1, renormalised when the carry made it 2^53
        Carry(m1, e) ==
            IF BigBitLen(m1) = 54
            THEN [nan |-> FALSE, m |-> BigShr(m1, 1), e |-> e + 1]
            ELSE [nan |-> FALSE, m |-> m1, e |-> e]
        \* c compares the dropped bits with one half
        Up(kept, c) == c > 0 \/ (c = 0 /\ (sticky \/ BigIsOdd(kept)))
        Nearest(kept, d) ==
            Carry(IF Up(kept, BigCmp(BigSub(Q, BigShl(kept, d)), BigShl(BigOne, d - 1)))
                  THEN BigAdd(kept, BigOne) ELSE kept,
                  ex + d)
    IN  IF n <= 53 THEN [nan |-> FALSE, m |-> BigShl(Q, 53 - n), e |-> ex - (53 - n)]
        ELSE Nearest(BigShr(Q, n - 53), n - 53)

\* the double nearest to (A / B) * 2^ex, A > 0, B > 0
DFromRatio(A, B, ex) ==
    IF B = BigOne THEN RoundToDouble(A, FALSE, ex)
    ELSE LET \* A * 2^s / B lies strictly between 2^54 and 2^56
             s  == 55 - (BigBitLen(A) - BigBitLen(B))
             Sticky(res, zero) == [q |-> res.q, sticky |-> res.r # zero]
             Rounded(res) == RoundToDouble(res.q, res.sticky, ex - s)
             Quotient(A2, B2) ==
                 Rounded(IF Len(B2) = 1 THEN Sticky(BigDivSmall(A2, B2[1]), 0)
                         ELSE Sticky(BigDivMod(A2, B2), <<>>))
         IN  Quotient(IF s >= 0 THEN BigShl(A, s) ELSE A,
                      IF s >= 0 THEN B ELSE BigShl(B, -s))

DFromInt(n) == IF n = 0 THEN DZero ELSE RoundToDouble(BigFromNat(n), FALSE, 0)

DMul(x, y) ==
    IF x.nan \/ y.nan THEN DNaN
    ELSE IF x.m = <<>> \/ y.m = <<>> THEN DZero
    ELSE RoundToDouble(BigMul(x.m, y.m), FALSE, x.e + y.e)

DAdd(x, y) ==
    IF x.nan \/ y.nan THEN DNaN
    ELSE IF x.m = <<>> THEN y
    ELSE IF y.m = <<>> THEN x
    ELSE LET e0 == IF x.e < y.e THEN x.e ELSE y.e
         IN  RoundToDouble(BigAdd(BigShl(x.m, x.e - e0), BigShl(y.m, y.e - e0)), FALSE, e0)

\* x / y; 0 / 0 is NaN (x / 0 for x # 0 is an infinity, which no caller produces)
DDiv(x, y) ==
    IF x.nan \/ y.nan \/ y.m = <<>> THEN DNaN
    ELSE IF x.m = <<>> THEN DZero
    ELSE LET kx == BigLowZeroBits(x.m)
             ky == BigLowZeroBits(y.m)
         IN  DFromRatio(BigShr(x.m, kx), BigShr(y.m, ky), (x.e + kx) - (y.e + ky))

\* math.Floor of a non-negative double below 2^31, as an integer
MathFloor(x) ==
    IF x.m = <<>> THEN 0
    ELSE IF x.e >= 0 THEN BigToNat(BigShl(x.m, x.e))
    ELSE BigToNat(BigShr(x.m, -x.e))

\* math.Round of a non-negative double below 2^31, as an integer: the
\* nearest integer, halves away from zero
MathRound(x) ==
    IF x.m = <<>> \/ x.e >= 0 THEN MathFloor(x)
    ELSE LET ip   == BigShr(x.m, -x.e)
             frac == BigSub(x.m, BigShl(ip, -x.e))
         IN  BigToNat(ip) + (IF BigCmp(frac, BigShl(BigOne, (-x.e) - 1)) >= 0 THEN 1 ELSE 0)

(***************************************************************************)
(* fmt.Sprintf verbs used by flatten.                                      *)
(***************************************************************************)
DigitChars == <<"0", "1", "2", "3", "4", "5", "6", "7", "8", "9">>

RECURSIVE NatToStr(_)
NatToStr(n) ==
    IF n < 10 THEN DigitChars[n + 1]
    ELSE NatToStr(n \div 10) \o DigitChars[(n % 10) + 1]

\* %d
FmtD(n) == IF n < 0 THEN "-" \o NatToStr(-n) ELSE NatToStr(n)

\* %.0f
FmtF0(x) ==
    LET body == NatToStr(RoundHalfEven(Abs(x.num), x.den))
    IN  IF x.num < 0 THEN "-" \o body ELSE body

\* %.1f
FmtF1(x) ==
    LET t    == RoundHalfEven(10 * Abs(x.num), x.den)
        body == NatToStr(t \div 10) \o "." \o DigitChars[(t % 10) + 1]
    IN  IF x.num < 0 THEN "-" \o body ELSE body

\* %t
FmtT(b) == IF b THEN "true" ELSE "false"

(***************************************************************************)
(* strings.TrimSpace, strings.IndexByte                                    *)
(***************************************************************************)
IsSpace(c) == c \in {" ", "\t", "\n", "\r"}

RECURSIVE TrimLeft(_)
TrimLeft(s) ==
    IF s = "" THEN ""
    ELSE IF IsSpace(SubSeq(s, 1, 1)) THEN TrimLeft(SubSeq(s, 2, Len(s)))
    ELSE s

RECURSIVE TrimRight(_)
TrimRight(s) ==
    IF s = "" THEN ""
    ELSE IF IsSpace(SubSeq(s, Len(s), Len(s))) THEN TrimRight(SubSeq(s, 1, Len(s) - 1))
    ELSE s

TrimSpace(s) == TrimRight(TrimLeft(s))

\* 0-based index of the first byte c in s, -1 when there is none
IndexByte(s, c) ==
    LET hits == {i \in 1..Len(s) : SubSeq(s, i, i) = c}
    IN  IF hits = {} THEN -1
        ELSE (CHOOSE i \in hits : \A j \in hits : i <= j) - 1

(***************************************************************************)
(* ParseResponse and its zero value.                                       *)
(***************************************************************************)
\* the filter categories in the order flatten visits them:
\* <<fact prefix, field of UiFilters>>
UiSlots ==
    << <<"ui.meals", "Meals">>,
       <<"ui.ratings", "Ratings">>,
       <<"ui.hotelTypes", "HotelTypes">>,
       <<"ui.hotelfacilities", "Hotelfacilities">>,
       <<"ui.poolbeach", "Poolbeach">>,
       <<"ui.distanceBeach", "DistanceBeach">>,
       <<"ui.travelGroup", "TravelGroup">>,
       <<"ui.stars", "Stars">>,
       <<"ui.wellness", "Wellness">>,
       <<"ui.reference_distance_max", "ReferenceDistance">>,
       <<"ui.flex", "Flex">>,
       <<"ui.children", "Children">>,
       <<"ui.parking", "Parking">>,
       <<"ui.freetime", "Freetime">>,
       <<"ui.certifications", "Certifications">>,
       <<"ui.hotelthemes", "Hotelthemes">>,
       <<"ui.hotelBrand", "HotelBrand">>,
       <<"ui.hotelinformation", "Hotelinformation">> >>

UiFields == {UiSlots[i][2] : i \in DOMAIN UiSlots}

ZeroUiFilters == [f \in UiFields |-> <<>>]

ZeroParseResponse ==
    [ Location            |-> "",
      Dates               |-> [Checkin |-> "", Checkout |-> ""],
      Guests              |-> [Adults |-> 0, Children |-> 0],
      PriceMaxEUR         |-> FZero,
      StarsMin            |-> 0,
      RatingMin           |-> FZero,
      FamilyFriendly      |-> FALSE,
      UiFilters           |-> ZeroUiFilters,
      UnsupportedCriteria |-> <<>> ]

(***************************************************************************)
(* flatten                                                                 *)
(***************************************************************************)
\* the trimmed non-blank tags of an array, in order, joined by commas
RECURSIVE JoinTags(_)
JoinTags(arr) ==
    IF arr = <<>> THEN ""
    ELSE LET v    == TrimSpace(Head(arr))
             rest == JoinTags(Tail(arr))
         IN  IF v = "" THEN rest
             ELSE IF rest = "" THEN v
             ELSE v \o "," \o rest

\* mutant of addSlice: the array kept as one ordered list-valued fact
addSlice_Joined(prefix, arr) ==
    IF JoinTags(arr) = "" THEN {} ELSE {prefix \o "=" \o JoinTags(arr)}

\* mutant of addSlice: one fact per array position instead of per value
addSlice_PerPosition(prefix, arr) ==
    { prefix \o "=" \o TrimSpace(arr[i]) \o "#" \o NatToStr(i) :
        i \in {j \in DOMAIN arr : TrimSpace(arr[j]) # ""} }

\* the closure addSlice of flatten: the facts one tag array adds
addSlice(prefix, arr) ==
    { prefix \o "=" \o TrimSpace(arr[i]) :
        i \in {j \in DOMAIN arr : TrimSpace(arr[j]) # ""} }

flatten(p) ==
    (IF p.Location # "" THEN {"location=" \o p.Location} ELSE {})
    \cup (IF p.Dates.Checkin # "" THEN {"dates.checkin=" \o p.Dates.Checkin} ELSE {})
    \cup (IF p.Dates.Checkout # "" THEN {"dates.checkout=" \o p.Dates.Checkout} ELSE {})
    \cup (IF p.Guests.Adults # 0 THEN {"guests.adults=" \o FmtD(p.Guests.Adults)} ELSE {})
    \cup (IF p.Guests.Children # 0 THEN {"guests.children=" \o FmtD(p.Guests.Children)} ELSE {})
    \cup (IF ~FIsZero(p.PriceMaxEUR) THEN {"price_max_eur=" \o FmtF0(p.PriceMaxEUR)} ELSE {})
    \cup (IF p.StarsMin # 0 THEN {"stars_min=" \o FmtD(p.StarsMin)} ELSE {})
    \cup (IF ~FIsZero(p.RatingMin) THEN {"rating_min=" \o FmtF1(p.RatingMin)} ELSE {})
    \cup {"family_friendly=" \o FmtT(p.FamilyFriendly)}
    \cup UNION {addSlice(UiSlots[i][1], p.UiFilters[UiSlots[i][2]]) : i \in DOMAIN UiSlots}
    \cup addSlice("unsupported", p.UnsupportedCriteria)

\* mutant of flattenWithSlots: family_friendly left out when it is false
flattenWithSlots_OmitFalse(p) == flatten(p) \ {"family_friendly=false"}

flattenWithSlots(p) == flatten(p)

\* mutant of slotNameOf: the whole key taken as the slot name
slotNameOf_WholeKey(k) == k

slotNameOf(k) ==
    LET i == IndexByte(k, "=")
    IN  IF i > 0 THEN SubSeq(k, 1, i) ELSE k

\* mutant of setsEqual: the length comparison dropped
setsEqual_NoLenCheck(a, b) == \A k \in a : k \in b

setsEqual(a, b) ==
    /\ Cardinality(a) = Cardinality(b)
    /\ \A k \in a : k \in b

(***************************************************************************)
(* safeDiv, harm, round2, scoreAgainstGT                                   *)
(***************************************************************************)
\* mutant of safeDiv: the zero guard dropped (0/0 is not a number)
safeDiv_NoGuard(num, den) == DDiv(DFromInt(num), DFromInt(den))

safeDiv(num, den) == IF den = 0 THEN DZero ELSE DDiv(DFromInt(num), DFromInt(den))

harm(p, r) ==
    IF DIsZero(DAdd(p, r)) THEN DZero
    ELSE DDiv(DMul(DMul(DFromInt(2), p), r), DAdd(p, r))

\* mutant of round2: truncation instead of rounding
round2_Truncate(x) == DDiv(DFromInt(MathFloor(DMul(x, DFromInt(100)))), DFromInt(100))

round2(x) ==
    IF x.nan THEN DNaN
    ELSE DDiv(DFromInt(MathRound(DMul(x, DFromInt(100)))), DFromInt(100))

\* mutant of scoreLocals: the union counts the common facts twice
scoreLocals_UnionSum(pSet, gSet) ==
    LET inter == Cardinality({k \in pSet : k \in gSet})
        union == Cardinality(pSet) + Cardinality(gSet)
        Locals(prec, rec) ==
            [ inter |-> inter,
              union |-> union,
              prec  |-> prec,
              rec   |-> rec,
              f1    |-> harm(prec, rec),
              jac   |-> IF union > 0 THEN DDiv(DFromInt(inter), DFromInt(union)) ELSE DZero,
              exact |-> setsEqual(pSet, gSet) ]
    IN  Locals(safeDiv(inter, Cardinality(pSet)), safeDiv(inter, Cardinality(gSet)))

\* the locals of scoreAgainstGT once both sides are flattened
scoreLocals(pSet, gSet) ==
    LET inter == Cardinality({k \in pSet : k \in gSet})
        union == Cardinality(pSet) + Cardinality(gSet) - inter
        Locals(prec, rec) ==
            [ inter |-> inter,
              union |-> union,
              prec  |-> prec,
              rec   |-> rec,
              f1    |-> harm(prec, rec),
              jac   |-> IF union > 0 THEN DDiv(DFromInt(inter), DFromInt(union)) ELSE DZero,
              exact |-> setsEqual(pSet, gSet) ]
    IN  Locals(safeDiv(inter, Cardinality(pSet)), safeDiv(inter, Cardinality(gSet)))

\* the QueryScores built from the locals
scoresOf(l) ==
    [ ExactMatch |-> l.exact,
      Jaccard    |-> round2(l.jac),
      F1         |-> round2(l.f1),
      LatencyMS  |-> 0 ]

scoreAgainstGT(p, g) == scoresOf(scoreLocals(flatten(p), flatten(g)))

(***************************************************************************)
(* acc, newAcc, incSlot, addSlots                                          *)
(* The slot map is a function from the slot names present to SlotStats.    *)
(* addSlots ranges over Go maps, whose iteration order is unspecified; it  *)
(* only increments counters, so every order gives the same accumulator and *)
(* the model folds the facts in one order.                                 *)
(***************************************************************************)
EmptySlotMap == [s \in {} |-> [TP |-> 0, FP |-> 0, FN |-> 0]]

newAcc ==
    [ tp |-> 0, fp |-> 0, fn |-> 0,
      sumExact |-> 0, sumJac |-> DZero, sumF1 |-> DZero, sumLat |-> DZero, n |-> 0,
      ambAccepted |-> 0, ambTotal |-> 0,
      slot |-> EmptySlotMap ]

\* mutant of incSlot: the counters assigned instead of incremented
incSlot_Overwrite(m, slot, tp, fp, fn) ==
    [s \in DOMAIN m \cup {slot} |->
        IF s = slot THEN [TP |-> tp, FP |-> fp, FN |-> fn] ELSE m[s]]

incSlot(m, slot, tp, fp, fn) ==
    LET s0 == IF slot \in DOMAIN m THEN m[slot] ELSE [TP |-> 0, FP |-> 0, FN |-> 0]
    IN  [s \in DOMAIN m \cup {slot} |->
            IF s = slot
            THEN [TP |-> s0.TP + tp, FP |-> s0.FP + fp, FN |-> s0.FN + fn]
            ELSE m[s]]

\* the first loop of addSlots: one prediction fact
addPredFact(a, k, gSet) ==
    IF k \in gSet
    THEN [a EXCEPT !.tp = @ + 1, !.slot = incSlot(@, slotNameOf(k), 1, 0, 0)]
    ELSE [a EXCEPT !.fp = @ + 1, !.slot = incSlot(@, slotNameOf(k), 0, 1, 0)]

\* mutant of addTruthFact: a missed fact counted in the total only
addTruthFact_TotalOnly(a, k, pSet) ==
    IF k \notin pSet THEN [a EXCEPT !.fn = @ + 1] ELSE a

\* the second loop of addSlots: one reference fact
addTruthFact(a, k, pSet) ==
    IF k \notin pSet
    THEN [a EXCEPT !.fn = @ + 1, !.slot = incSlot(@, slotNameOf(k), 0, 0, 1)]
    ELSE a

RECURSIVE addPredFacts(_, _, _)
addPredFacts(a, todo, gSet) ==
    IF todo = {} THEN a
    ELSE LET k == CHOOSE x \in todo : TRUE
         IN  addPredFacts(addPredFact(a, k, gSet), todo \ {k}, gSet)

RECURSIVE addTruthFacts(_, _, _)
addTruthFacts(a, todo, pSet) ==
    IF todo = {} THEN a
    ELSE LET k == CHOOSE x \in todo : TRUE
         IN  addTruthFacts(addTruthFact(a, k, pSet), todo \ {k}, pSet)

addSlots(a, p, g) ==
    LET Loops(pSet, gSet) == addTruthFacts(addPredFacts(a, pSet, gSet), gSet, pSet)
    IN  Loops(flattenWithSlots(p), flattenWithSlots(g))

(***************************************************************************)
(* acc.add, acc.metrics, matchesAnyAcceptable                              *)
(***************************************************************************)
add(a, s, latency) ==
    [a EXCEPT !.sumExact = IF s.ExactMatch THEN @ + 1 ELSE @,
              !.sumJac   = DAdd(@, s.Jaccard),
              !.sumF1    = DAdd(@, s.F1),
              !.sumLat   = DAdd(@, DFromInt(latency)),
              !.n        = @ + 1]

\* mutant of slotMetrics: the slot's F1 taken as the mean of the two ratios
slotMetrics_MeanF1(st) ==
    LET Stats(p, r) ==
            [ Precision |-> round2(p),
              Recall    |-> round2(r),
              F1        |-> round2(DDiv(DAdd(p, r), DFromInt(2))),
              TP |-> st.TP, FP |-> st.FP, FN |-> st.FN ]
    IN  Stats(safeDiv(st.TP, st.TP + st.FP), safeDiv(st.TP, st.TP + st.FN))

\* the body of the per-slot loop of acc.metrics
slotMetrics(st) ==
    LET Stats(p, r) ==
            [ Precision |-> round2(p),
              Recall    |-> round2(r),
              F1        |-> round2(harm(p, r)),
              TP |-> st.TP, FP |-> st.FP, FN |-> st.FN ]
    IN  Stats(safeDiv(st.TP, st.TP + st.FP), safeDiv(st.TP, st.TP + st.FN))

metrics(a) ==
    LET avgExact == IF a.n > 0 THEN DDiv(DFromInt(a.sumExact), DFromInt(a.n)) ELSE DZero
        avgJac   == IF a.n > 0 THEN DDiv(a.sumJac, DFromInt(a.n)) ELSE DZero
        avgLat   == IF a.n > 0 THEN DDiv(a.sumLat, DFromInt(a.n)) ELSE DZero
        ambRate  == IF a.ambTotal > 0
                    THEN DDiv(DFromInt(a.ambAccepted), DFromInt(a.ambTotal)) ELSE DZero
        Report(prec, rec) ==
            [ SlotPrecision         |-> round2(prec),
              SlotRecall            |-> round2(rec),
              F1                    |-> round2(harm(prec, rec)),
              ExactMatch            |-> round2(avgExact),
              Jaccard               |-> round2(avgJac),
              AvgLatencyMS          |-> round2(avgLat),
              Count                 |-> a.n,
              AmbiguityHandlingRate |-> round2(ambRate),
              PerSlot               |-> [sl \in DOMAIN a.slot |-> slotMetrics(a.slot[sl])] ]
    IN  Report(safeDiv(a.tp, a.tp + a.fp), safeDiv(a.tp, a.tp + a.fn))

\* mutant of matchesAnyAcceptable: only the first acceptable parse is compared
matchesAnyAcceptable_FirstOnly(p, accepts) ==
    IF Len(accepts) = 0 THEN FALSE
    ELSE setsEqual(flatten(p), flatten(accepts[1]))

\* mutant of matchesAnyAcceptable: a shared fact is enough
matchesAnyAcceptable_Overlap(p, accepts) ==
    IF Len(accepts) = 0 THEN FALSE
    ELSE \E i \in DOMAIN accepts : flatten(p) \cap flatten(accepts[i]) # {}

matchesAnyAcceptable(p, accepts) ==
    IF Len(accepts) = 0 THEN FALSE
    ELSE \E i \in DOMAIN accepts : setsEqual(flatten(p), flatten(accepts[i]))

(***************************************************************************)
(* evalHandler and upsertPerQuery.                                         *)
(* A Go pointer is <<>> when nil and <<v>> when it points to v.  A         *)
(* time.Time is the integer instant it denotes.  A data file is the slice  *)
(* json.Unmarshal decodes from it; a missing file decodes to no element.   *)
(***************************************************************************)
\* mutant of gtMapOf: the first entry of a query text wins
gtMapOf_FirstWins(items) ==
    [qy \in {items[i].Query : i \in DOMAIN items} |->
        items[CHOOSE i \in DOMAIN items :
                /\ items[i].Query = qy
                /\ \A j \in DOMAIN items : items[j].Query = qy => i <= j]]

\* the map the loop gtMap[g.Query] = g leaves: a later entry overwrites
gtMapOf(items) ==
    [qy \in {items[i].Query : i \in DOMAIN items} |->
        items[CHOOSE i \in DOMAIN items :
                /\ items[i].Query = qy
                /\ \A j \in DOMAIN items : items[j].Query = qy => j <= i]]

\* the row upsertPerQuery appends for a (query, time) pair not in the list
NewRow(run, ambiguous) ==
    [ Query |-> run.Query, OpenAI |-> <<>>, Claude |-> <<>>,
      Ambiguous |-> ambiguous, Accepted |-> FALSE, Time |-> run.Time ]

\* mutant of RowWith: the accepted flag written whether or not the query is
\* ambiguous
RowWith_AnyQuery(row, run, provider, s, ambiguous, acceptable) ==
    LET s1    == [s EXCEPT !.LatencyMS = run.Latency]
        row1  == IF provider = "openai" THEN [row EXCEPT !.OpenAI = <<s1>>]
                 ELSE IF provider = "claude" THEN [row EXCEPT !.Claude = <<s1>>]
                 ELSE row
        accepted ==
            \/ /\ run.Response.OpenAI # <<>>
               /\ matchesAnyAcceptable(run.Response.OpenAI[1], acceptable)
            \/ /\ run.Response.Claude # <<>>
               /\ matchesAnyAcceptable(run.Response.Claude[1], acceptable)
    IN  [row1 EXCEPT !.Accepted = accepted]

\* the row after a provider's scores and the accepted flag are written
RowWith(row, run, provider, s, ambiguous, acceptable) ==
    LET s1    == [s EXCEPT !.LatencyMS = run.Latency]
        row1  == IF provider = "openai" THEN [row EXCEPT !.OpenAI = <<s1>>]
                 ELSE IF provider = "claude" THEN [row EXCEPT !.Claude = <<s1>>]
                 ELSE row
        accepted ==
            \/ /\ run.Response.OpenAI # <<>>
               /\ matchesAnyAcceptable(run.Response.OpenAI[1], acceptable)
            \/ /\ run.Response.Claude # <<>>
               /\ matchesAnyAcceptable(run.Response.Claude[1], acceptable)
    IN  IF ambiguous THEN [row1 EXCEPT !.Accepted = accepted] ELSE row1

\* mutant of upsertPerQuery: rows are matched on the query text alone
upsertPerQuery_QueryOnly(list, run, provider, s, ambiguous, acceptable) ==
    LET hits  == {i \in DOMAIN list : list[i].Query = run.Query}
        list1 == IF hits = {} THEN Append(list, NewRow(run, ambiguous)) ELSE list
        idx   == IF hits = {} THEN Len(list1)
                 ELSE CHOOSE i \in hits : \A j \in hits : i <= j
    IN  [list1 EXCEPT ![idx] = RowWith(list1[idx], run, provider, s, ambiguous, acceptable)]

upsertPerQuery(list, run, provider, s, ambiguous, acceptable) ==
    LET hits  == {i \in DOMAIN list : list[i].Query = run.Query /\ list[i].Time = run.Time}
        list1 == IF hits = {} THEN Append(list, NewRow(run, ambiguous)) ELSE list
        idx   == IF hits = {} THEN Len(list1)
                 ELSE CHOOSE i \in hits : \A j \in hits : i <= j
    IN  [list1 EXCEPT ![idx] = RowWith(list1[idx], run, provider, s, ambiguous, acceptable)]

\* the accumulator of one provider after a run's parse is scored against
\* the run's ground-truth item: add, addSlots and the ambiguity counters
\* mutant of evalProvider: acceptance counted whether or not the entry is
\* marked ambiguous
evalProvider_AcceptAny(a, parse, gtItem, latency, s) ==
    LET Counted(a1) ==
            [a1 EXCEPT !.ambAccepted =
                           IF matchesAnyAcceptable(parse, gtItem.AcceptableInterpretation)
                           THEN @ + 1 ELSE @,
                       !.ambTotal = IF gtItem.Ambiguous THEN @ + 1 ELSE @]
    IN  Counted(addSlots(add(a, s, latency), parse, gtItem.Truth))

evalProvider(a, parse, gtItem, latency, s) ==
    LET Counted(a1) ==
            IF gtItem.Ambiguous
            THEN [a1 EXCEPT !.ambAccepted =
                                IF matchesAnyAcceptable(parse, gtItem.AcceptableInterpretation)
                                THEN @ + 1 ELSE @,
                            !.ambTotal = @ + 1]
            ELSE a1
    IN  Counted(addSlots(add(a, s, latency), parse, gtItem.Truth))

\* one provider's half of the loop body; st holds openAcc, claudeAcc, perQuery
evalParse(st, run, provider, ptr, gtItem, want) ==
    IF ptr = <<>> THEN st
    ELSE LET old == IF provider = "openai" THEN st.openAcc ELSE st.claudeAcc
             Out(new, pq) ==
                 IF provider = "openai"
                 THEN [openAcc |-> new, claudeAcc |-> st.claudeAcc, perQuery |-> pq]
                 ELSE [openAcc |-> st.openAcc, claudeAcc |-> new, perQuery |-> pq]
             Scored(s) ==
                 Out(evalProvider(old, ptr[1], gtItem, run.Latency, s),
                     IF want
                     THEN upsertPerQuery(st.perQuery, run, provider, s, gtItem.Ambiguous,
                                         gtItem.AcceptableInterpretation)
                     ELSE st.perQuery)
         IN  Scored(scoreAgainstGT(ptr[1], gtItem.Truth))

\* the zero GroundTruthItem, which a Go map yields for a missing key
ZeroGroundTruthItem ==
    [ Query |-> "", Truth |-> ZeroParseResponse, Ambiguous |-> FALSE,
      AcceptableInterpretation |-> <<>> ]

\* mutant of evalRun: a run without ground truth scored against the zero item
evalRun_NoSkip(st, run, m, want) ==
    LET gtItem == IF run.Query \in DOMAIN m THEN m[run.Query] ELSE ZeroGroundTruthItem
    IN  evalParse(evalParse(st, run, "openai", run.Response.OpenAI, gtItem, want),
                  run, "claude", run.Response.Claude, gtItem, want)

\* the body of the loop over the stored runs
evalRun(st, run, m, want) ==
    IF run.Query \notin DOMAIN m THEN st
    ELSE LET gtItem == m[run.Query]
         IN  evalParse(evalParse(st, run, "openai", run.Response.OpenAI, gtItem, want),
                       run, "claude", run.Response.Claude, gtItem, want)

\* mutant of evalSnapshot: every provider reported, evaluated or not
evalSnapshot_Always(oAcc, cAcc) ==
    [OpenAI |-> <<metrics(oAcc)>>, Claude |-> <<metrics(cAcc)>>]

\* the provider part of the EvalResponse
evalSnapshot(oAcc, cAcc) ==
    [ OpenAI |-> IF oAcc.n > 0 THEN <<metrics(oAcc)>> ELSE <<>>,
      Claude |-> IF cAcc.n > 0 THEN <<metrics(cAcc)>> ELSE <<>> ]

\* the permutations of 1..n
Perms(n) == {pi \in [1..n -> 1..n] : \A i, j \in 1..n : pi[i] = pi[j] => i = j}

\* mutant of SortedByTime: the rows left in the order they were made
SortedByTime_Unsorted(list) == {list}

\* sort.Slice by Time: the orders it may leave the rows in (rows of equal
\* time may come out in any order)
SortedByTime(list) ==
    { [i \in DOMAIN list |-> list[pi[i]]] :
        pi \in { f \in Perms(Len(list)) :
                   \A i, j \in DOMAIN list : i < j => list[f[i]].Time <= list[f[j]].Time } }

(***************************************************************************)
(* extractJSONObject: the result is [ok, out]; ok = FALSE is the error     *)
(* return, whose string is "".  Positions are 1-based; start = 0 stands    *)
(* for the -1 of the code.                                                 *)
(***************************************************************************)
\* mutant of extractScan: the scan returns at the first closing brace
RECURSIVE extractScan_FirstClose(_, _, _, _)
extractScan_FirstClose(s, i, start, depth) ==
    IF i > Len(s) THEN [ok |-> FALSE, out |-> ""]
    ELSE IF SubSeq(s, i, i) = "{"
         THEN extractScan_FirstClose(s, i + 1, IF depth = 0 THEN i ELSE start, depth + 1)
    ELSE IF SubSeq(s, i, i) = "}" /\ depth > 0
         THEN [ok |-> TRUE, out |-> SubSeq(s, start, i)]
    ELSE extractScan_FirstClose(s, i + 1, start, depth)

\* the loop of extractJSONObject from position i on
RECURSIVE extractScan(_, _, _, _)
extractScan(s, i, start, depth) ==
    IF i > Len(s) THEN [ok |-> FALSE, out |-> ""]
    ELSE IF SubSeq(s, i, i) = "{"
         THEN extractScan(s, i + 1, IF depth = 0 THEN i ELSE start, depth + 1)
    ELSE IF SubSeq(s, i, i) = "}" /\ depth > 0
         THEN IF depth - 1 = 0 /\ start # 0
              THEN [ok |-> TRUE, out |-> SubSeq(s, start, i)]
              ELSE extractScan(s, i + 1, start, depth - 1)
    ELSE extractScan(s, i + 1, start, depth)

extractJSONObject(s) == extractScan(s, 1, 0, 0)

(***************************************************************************)
(* encoding/json as parseHandler.run uses it: one JSON value is read from  *)
(* the text, then stored into a ParseResponse with unknown fields          *)
(* disallowed.  Texts carry no escape sequences and no exponents.  A JSON  *)
(* value is [t, s, kids]: t is "str", "num", "true", "false", "null",      *)
(* "obj" or "arr"; s the string or the number literal; kids the members    *)
(* [k, v] of an object or the items [k = "", v] of an array.  A read is    *)
(* [ok, v, next], next being the position after the value.                 *)
(***************************************************************************)
Ch(s, i) == IF i >= 1 /\ i <= Len(s) THEN SubSeq(s, i, i) ELSE ""

UpperChars == "ABCDEFGHIJKLMNOPQRSTUVWXYZ"

LowerChars == "abcdefghijklmnopqrstuvwxyz"

\* strings.ToLower on ASCII text
RECURSIVE ToLower(_)
ToLower(s) ==
    IF s = "" THEN ""
    ELSE LET hit == {i \in 1..Len(UpperChars) : Ch(UpperChars, i) = Ch(s, 1)}
         IN  (IF hit = {} THEN Ch(s, 1) ELSE Ch(LowerChars, CHOOSE i \in hit : TRUE))
             \o ToLower(SubSeq(s, 2, Len(s)))

\* the first position from i on that holds no white space
skipSpace(s, i) ==
    CHOOSE j \in i..(Len(s) + 1) :
        /\ ~IsSpace(Ch(s, j))
        /\ \A k \in i..(j - 1) : IsSpace(Ch(s, k))

\* the first position from i on that holds c, 0 when there is none
scanTo(s, i, c) ==
    LET hits == {j \in i..Len(s) : Ch(s, j) = c}
    IN  IF hits = {} THEN 0 ELSE CHOOSE j \in hits : \A k \in hits : j <= k

IsDigit(c) == \E k \in DOMAIN DigitChars : DigitChars[k] = c

IsDigits(t) == t # "" /\ \A i \in 1..Len(t) : IsDigit(Ch(t, i))

RECURSIVE DigitsVal(_)
DigitsVal(t) ==
    IF t = "" THEN 0
    ELSE 10 * DigitsVal(SubSeq(t, 1, Len(t) - 1))
         + (CHOOSE k \in DOMAIN DigitChars : DigitChars[k] = Ch(t, Len(t))) - 1

\* the parts of a number literal: sign, integer digits, fraction digits
numParts(t) ==
    LET neg  == Ch(t, 1) = "-"
        body == IF neg THEN SubSeq(t, 2, Len(t)) ELSE t
        dot  == IndexByte(body, ".")
    IN  [ neg  |-> neg,
          dot  |-> dot # -1,
          int  |-> IF dot = -1 THEN body ELSE SubSeq(body, 1, dot),
          frac |-> IF dot = -1 THEN "" ELSE SubSeq(body, dot + 2, Len(body)) ]

\* the scanner's number grammar: -? (0 | [1-9][0-9]*) (. [0-9]+)?
IsNumberLit(t) ==
    LET Ok(p) == /\ IsDigits(p.int)
                 /\ (Len(p.int) = 1 \/ Ch(p.int, 1) # "0")
                 /\ (p.dot => IsDigits(p.frac))
    IN  Ok(numParts(t))

HasWord(s, i, w) == i + Len(w) - 1 <= Len(s) /\ SubSeq(s, i, i + Len(w) - 1) = w

JValue(t, s, kids) == [t |-> t, s |-> s, kids |-> kids]

JNull == JValue("null", "", <<>>)

NoRead == [ok |-> FALSE, v |-> JNull, next |-> 0]

Read(v, next) == [ok |-> TRUE, v |-> v, next |-> next]

\* a string, a number or a literal starting at i
jsonScalar(s, i) ==
    IF Ch(s, i) = "\""
    THEN LET Closed(j) == IF j = 0 THEN NoRead
                          ELSE Read(JValue("str", SubSeq(s, i + 1, j - 1), <<>>), j + 1)
         IN  Closed(scanTo(s, i + 1, "\""))
    ELSE IF Ch(s, i) = "-" \/ IsDigit(Ch(s, i))
    THEN LET Lit(j) == IF IsNumberLit(SubSeq(s, i, j - 1))
                       THEN Read(JValue("num", SubSeq(s, i, j - 1), <<>>), j)
                       ELSE NoRead
         IN  Lit(CHOOSE j \in (i + 1)..(Len(s) + 1) :
                    /\ ~(IsDigit(Ch(s, j)) \/ Ch(s, j) \in {"-", "."})
                    /\ \A k \in (i + 1)..(j - 1) : IsDigit(Ch(s, k)) \/ Ch(s, k) \in {"-", "."})
    ELSE IF HasWord(s, i, "true") THEN Read(JValue("true", "", <<>>), i + 4)
    ELSE IF HasWord(s, i, "null") THEN Read(JNull, i + 4)
    ELSE IF HasWord(s, i, "false") THEN Read(JValue("false", "", <<>>), i + 5)
    ELSE NoRead

RECURSIVE jsonValue(_, _)
RECURSIVE jsonMembers(_, _, _)
RECURSIVE jsonItems(_, _, _)

\* the members of an object from the key at i on; acc holds those read
jsonMembers(s, i, acc) ==
    LET Member(key, colon) ==
            IF ~key.ok \/ key.v.t # "str" \/ Ch(s, colon) # ":" THEN NoRead
            ELSE LET After(val, j) ==
                         IF ~val.ok THEN NoRead
                         ELSE IF Ch(s, j) = ","
                         THEN jsonMembers(s, skipSpace(s, j + 1),
                                          Append(acc, [k |-> key.v.s, v |-> val.v]))
                         ELSE IF Ch(s, j) = "}"
                         THEN Read(JValue("obj", "",
                                          Append(acc, [k |-> key.v.s, v |-> val.v])), j + 1)
                         ELSE NoRead
                     Value(val) == After(val, IF val.ok THEN skipSpace(s, val.next) ELSE 0)
                 IN  Value(jsonValue(s, skipSpace(s, colon + 1)))
        Key(key) == Member(key, IF key.ok THEN skipSpace(s, key.next) ELSE 0)
    IN  IF Ch(s, i) # "\"" THEN NoRead ELSE Key(jsonScalar(s, i))

\* the items of an array from the value at i on; acc holds those read
jsonItems(s, i, acc) ==
    LET After(val, j) ==
            IF ~val.ok THEN NoRead
            ELSE IF Ch(s, j) = ","
            THEN jsonItems(s, skipSpace(s, j + 1), Append(acc, [k |-> "", v |-> val.v]))
            ELSE IF Ch(s, j) = "]"
            THEN Read(JValue("arr", "", Append(acc, [k |-> "", v |-> val.v])), j + 1)
            ELSE NoRead
        Value(val) == After(val, IF val.ok THEN skipSpace(s, val.next) ELSE 0)
    IN  Value(jsonValue(s, i))

\* the JSON value that starts at i
jsonValue(s, i) ==
    IF Ch(s, i) = "{"
    THEN LET First(j) == IF Ch(s, j) = "}" THEN Read(JValue("obj", "", <<>>), j + 1)
                         ELSE jsonMembers(s, j, <<>>)
         IN  First(skipSpace(s, i + 1))
    ELSE IF Ch(s, i) = "["
    THEN LET First(j) == IF Ch(s, j) = "]" THEN Read(JValue("arr", "", <<>>), j + 1)
                         ELSE jsonItems(s, j, <<>>)
         IN  First(skipSpace(s, i + 1))
    ELSE jsonScalar(s, i)

\* the struct types of the schema: JSON key, Go field, kind of the field
Schema ==
    [ ParseResponse |->
        << <<"location", "Location", "string">>,
           <<"dates", "Dates", "Dates">>,
           <<"guests", "Guests", "Guests">>,
           <<"price_max_eur", "PriceMaxEUR", "float64">>,
           <<"stars_min", "StarsMin", "int">>,
           <<"rating_min", "RatingMin", "float64">>,
           <<"family_friendly", "FamilyFriendly", "bool">>,
           <<"ui_filters", "UiFilters", "UiFilters">>,
           <<"unsupported_criteria", "UnsupportedCriteria", "[]string">> >>,
      Dates |->
        << <<"checkin", "Checkin", "string">>, <<"checkout", "Checkout", "string">> >>,
      Guests |->
        << <<"adults", "Adults", "int">>, <<"children", "Children", "int">> >>,
      UiFilters |->
        [ i \in DOMAIN UiSlots |->
            <<SubSeq(UiSlots[i][1], 4, Len(UiSlots[i][1])), UiSlots[i][2], "[]string">> ] ]

\* the decimal literal as the number it denotes
numValue(p) ==
    LET Lowest(n, d) ==
            LET g == CHOOSE c \in 1..d :
                        /\ n % c = 0 /\ d % c = 0
                        /\ \A h \in (c + 1)..d : ~(n % h = 0 /\ d % h = 0)
            IN  F((IF p.neg THEN -1 ELSE 1) * (n \div g), d \div g)
    IN  Lowest(DigitsVal(p.int \o p.frac), 10 ^ Len(p.frac))

Stored(val) == [ok |-> TRUE, val |-> val]

RECURSIVE storeValue(_, _, _)
RECURSIVE decodeStruct(_, _, _, _)

\* the members kids[i..] of a JSON object stored into the struct cur of
\* type typ; a key that names no field is an error (DisallowUnknownFields)
decodeStruct(typ, cur, kids, i) ==
    IF i > Len(kids) THEN Stored(cur)
    ELSE LET hit == {f \in DOMAIN Schema[typ] : Schema[typ][f][1] = ToLower(kids[i].k)}
             Field(f) ==
                 LET Set(r) == IF r.ok
                               THEN decodeStruct(typ, [cur EXCEPT ![f[2]] = r.val], kids, i + 1)
                               ELSE [ok |-> FALSE, val |-> cur]
                 IN  Set(storeValue(f[3], cur[f[2]], kids[i].v))
         IN  IF hit = {} THEN [ok |-> FALSE, val |-> cur]
             ELSE Field(Schema[typ][CHOOSE f \in hit : TRUE])

\* the JSON value v stored into a field of the given kind holding old;
\* null leaves the field as it is, a value of another type is an error
storeValue(kind, old, v) ==
    IF v.t = "null" THEN Stored(old)
    ELSE IF kind = "string"
    THEN IF v.t = "str" THEN Stored(v.s) ELSE [ok |-> FALSE, val |-> old]
    ELSE IF kind = "bool"
    THEN IF v.t \in {"true", "false"} THEN Stored(v.t = "true") ELSE [ok |-> FALSE, val |-> old]
    ELSE IF kind = "float64"
    THEN IF v.t = "num" THEN Stored(numValue(numParts(v.s))) ELSE [ok |-> FALSE, val |-> old]
    ELSE IF kind = "int"
    THEN IF v.t = "num" /\ ~numParts(v.s).dot
         THEN Stored(numValue(numParts(v.s)).num)
         ELSE [ok |-> FALSE, val |-> old]
    ELSE IF kind = "[]string"
    THEN IF v.t = "arr" /\ \A j \in DOMAIN v.kids : v.kids[j].v.t \in {"str", "null"}
         THEN Stored([j \in DOMAIN v.kids |-> v.kids[j].v.s])
         ELSE [ok |-> FALSE, val |-> old]
    ELSE IF v.t = "obj" THEN decodeStruct(kind, old, v.kids, 1)
    ELSE [ok |-> FALSE, val |-> old]

\* dec.DisallowUnknownFields(); dec.Decode(&parsed) on the text jsonPart:
\* [ok, val], ok = FALSE being the error return
Decode(jsonPart) ==
    LET Into(r) == IF r.ok THEN storeValue("ParseResponse", ZeroParseResponse, r.v)
                   ELSE [ok |-> FALSE, val |-> ZeroParseResponse]
    IN  Into(jsonValue(jsonPart, skipSpace(jsonPart, 1)))

(***************************************************************************)
(* parseHandler.  A completion is what one CompleteJSON call returns:      *)
(* [err, raw].  A provider's client is the sequence of completions its     *)
(* next calls return.  The closure returns [err, res, calls]: err = "" for nil,    *)
(* res = <<parsed>> or <<>> for nil, calls the CompleteJSON calls made.    *)
(***************************************************************************)
Providers == {"OpenAI", "Claude"}

Completion(err, raw) == [err |-> err, raw |-> raw]

\* mutant of Validate: the ranges are checked at their lower ends only
Validate_LowerEnds(p) ==
    /\ ~(p.StarsMin < 0)
    /\ ~(p.RatingMin.num < 0)
    /\ ~(p.Guests.Adults < 0 \/ p.Guests.Children < 0)

\* ParseResponse.Validate: TRUE for the nil return
Validate(p) ==
    /\ ~(p.StarsMin < 0 \/ p.StarsMin > 5)
    /\ ~(p.RatingMin.num < 0 \/ p.RatingMin.num > 10 * p.RatingMin.den)
    /\ ~(p.Guests.Adults < 0 \/ p.Guests.Children < 0)

RunFailed(why) == [err |-> why, res |-> <<>>, calls |-> 1]

\* mutant of parseHandlerRun: a completion without a JSON object is asked for again
parseHandlerRun_Retry(cli) ==
    LET Try(k) ==
            LET Checked(d) ==
                    IF ~d.ok THEN RunFailed("schema violation")
                    ELSE IF ~Validate(d.val) THEN RunFailed("validation failed")
                    ELSE [err |-> "", res |-> <<d.val>>, calls |-> k]
                Decoded(jsonPart) ==
                    IF ~jsonPart.ok THEN RunFailed("no JSON found in output")
                    ELSE Checked(Decode(jsonPart.out))
            IN  IF cli[k].err # "" THEN RunFailed(cli[k].err)
                ELSE Decoded(extractJSONObject(cli[k].raw))
    IN  IF cli[1].err = "" /\ ~extractJSONObject(cli[1].raw).ok THEN Try(2) ELSE Try(1)

\* the closure run of parseHandler, called with the client of a provider
parseHandlerRun(cli) ==
    LET Checked(d) ==
            IF ~d.ok THEN RunFailed("schema violation")
            ELSE IF ~Validate(d.val) THEN RunFailed("validation failed")
            ELSE [err |-> "", res |-> <<d.val>>, calls |-> 1]
        Decoded(jsonPart) ==
            IF ~jsonPart.ok THEN RunFailed("no JSON found in output")
            ELSE Checked(Decode(jsonPart.out))
    IN  IF cli[1].err # "" THEN RunFailed(cli[1].err)
        ELSE Decoded(extractJSONObject(cli[1].raw))

NoCalls == [p \in Providers |-> 0]

NoResults == [OpenAI |-> <<>>, Claude |-> <<>>]

\* what parseHandler does with a request: the status it answers with, the
\* MultiParseResponse it built, the calls it made, whether it reached
\* StoreResult.  Refused is an http.Error followed by return, Passed the
\* path that falls through the switch to StoreResult and the encoder.
Refused(status, calls) ==
    [status |-> status, results |-> NoResults, calls |-> calls, stored |-> FALSE]

Passed(multi, calls) ==
    [status |-> 200, results |-> multi, calls |-> calls, stored |-> TRUE]

\* StoreResult: the decoded results file after the call
StoreResult(log, query, multi, latency, now) ==
    Append(log, [ Query |-> query, Response |-> multi, Latency |-> latency, Time |-> now ])

\* mutant of parseHandler: mode "both" goes on to StoreResult without the
\* check that one of the two parses is there
parseHandler_NoNilCheck(req, keys, clients) ==
    LET Single(p) ==
            LET Ran(r) ==
                    IF r.err = ""
                    THEN Passed([NoResults EXCEPT ![p] = r.res],
                                [NoCalls EXCEPT ![p] = r.calls])
                    ELSE Refused(502, [NoCalls EXCEPT ![p] = r.calls])
            IN  IF p \notin keys THEN Refused(500, NoCalls)
                ELSE Ran(parseHandlerRun(clients[p]))
        Both ==
            LET Ran(o, c) ==
                    IF FALSE
                    THEN Refused(502, [OpenAI |-> o.calls, Claude |-> c.calls])
                    ELSE Passed([OpenAI |-> o.res, Claude |-> c.res],
                                [OpenAI |-> o.calls, Claude |-> c.calls])
                Skipped == [err |-> "client", res |-> <<>>, calls |-> 0]
            IN  Ran(IF "OpenAI" \in keys THEN parseHandlerRun(clients.OpenAI) ELSE Skipped,
                    IF "Claude" \in keys THEN parseHandlerRun(clients.Claude) ELSE Skipped)
        Switch(mode) ==
            IF mode = "claude" THEN Single("Claude")
            ELSE IF mode = "both" THEN Both
            ELSE Single("OpenAI")
    IN  IF req.Method # "POST" THEN Refused(405, NoCalls)
        ELSE IF ~req.BodyOk THEN Refused(400, NoCalls)
        ELSE IF TrimSpace(req.Query) = "" THEN Refused(400, NoCalls)
        ELSE Switch(ToLower(TrimSpace(req.Provider)))

\* parseHandler from the method check to the provider switch; keys are the
\* providers whose New...Client succeeds, clients[p] the client of p
parseHandler(req, keys, clients) ==
    LET Single(p) ==
            LET Ran(r) ==
                    IF r.err = ""
                    THEN Passed([NoResults EXCEPT ![p] = r.res],
                                [NoCalls EXCEPT ![p] = r.calls])
                    ELSE Refused(502, [NoCalls EXCEPT ![p] = r.calls])
            IN  IF p \notin keys THEN Refused(500, NoCalls)
                ELSE Ran(parseHandlerRun(clients[p]))
        Both ==
            LET Ran(o, c) ==
                    IF o.res = <<>> /\ c.res = <<>>
                    THEN Refused(502, [OpenAI |-> o.calls, Claude |-> c.calls])
                    ELSE Passed([OpenAI |-> o.res, Claude |-> c.res],
                                [OpenAI |-> o.calls, Claude |-> c.calls])
                Skipped == [err |-> "client", res |-> <<>>, calls |-> 0]
            IN  Ran(IF "OpenAI" \in keys THEN parseHandlerRun(clients.OpenAI) ELSE Skipped,
                    IF "Claude" \in keys THEN parseHandlerRun(clients.Claude) ELSE Skipped)
        Switch(mode) ==
            IF mode = "claude" THEN Single("Claude")
            ELSE IF mode = "both" THEN Both
            ELSE Single("OpenAI")
    IN  IF req.Method # "POST" THEN Refused(405, NoCalls)
        ELSE IF ~req.BodyOk THEN Refused(400, NoCalls)
        ELSE IF TrimSpace(req.Query) = "" THEN Refused(400, NoCalls)
        ELSE Switch(ToLower(TrimSpace(req.Provider)))

(***************************************************************************)
(* The results file as the handlers share it.  os.ReadFile returns the     *)
(* bytes of the moment; json.Unmarshal of bytes that are no JSON array     *)
(* (an empty file, a torn one) fails and leaves results nil, and so does a *)
(* file that is not there.  os.WriteFile opens with O_TRUNC, which empties *)
(* the file, and then writes the bytes from offset 0 on.                   *)
(***************************************************************************)
\* the bytes of a marshalled log, counted in entries and parses
SizeOf(runs) ==
    Len(runs)
    + Cardinality({<<i, p>> \in (DOMAIN runs) \X Providers : runs[i].Response[p] # <<>>})

FileOf(runs) == [ok |-> TRUE, runs |-> runs, size |-> SizeOf(runs)]

\* no file, which both handlers read as no results
NoFile == FileOf(<<>>)

\* the file right after the open of os.WriteFile
Truncated == [ok |-> FALSE, runs |-> <<>>, size |-> 0]

\* b, err := os.ReadFile(resultsFile); json.Unmarshal(b, &results)
readResults(f) == IF f.ok THEN f.runs ELSE <<>>

\* f.Write(b) on the file as it is now: bytes of a longer content written
\* since the open stay behind the new ones
written(f, runs) ==
    IF SizeOf(runs) >= f.size THEN FileOf(runs)
    ELSE [ok |-> FALSE, runs |-> <<>>, size |-> f.size]

\* the loop of evalHandler over the decoded results from entry i on
RECURSIVE evalLoop(_, _, _, _, _)
evalLoop(st, runs, i, m, want) ==
    IF i > Len(runs) THEN st
    ELSE CHOOSE out \in { evalLoop(new, runs, i + 1, m, want) :
                            new \in {evalRun(st, runs[i], m, want)} } : TRUE

\* evalHandler without the flags raw and per_query, from the decoded files
\* to the response
evalHandler(runs, items) ==
    LET Encoded(st) ==
            LET Snap(snap) ==
                    [OpenAI |-> snap.OpenAI, Claude |-> snap.Claude, PerQueryDiff |-> <<>>]
            IN  Snap(evalSnapshot(st.openAcc, st.claudeAcc))
    IN  Encoded(evalLoop([openAcc |-> newAcc, claudeAcc |-> newAcc, perQuery |-> <<>>],
                         runs, 1, gtMapOf(items), FALSE))

Request(method, bodyOk, query, provider) ==
    [Method |-> method, BodyOk |-> bodyOk, Query |-> query, Provider |-> provider]

NoRequest == Request("", FALSE, "", "")

NoProducer == [p \in Providers |-> <<>>]

(***************************************************************************)
(* Inputs of the flatten checks.                                           *)
(***************************************************************************)
Tags == {"", " ", "wifi", " pool"}

TagArrays == UNION {[1..n -> Tags] : n \in 0..MaxTags}

\* the scalar fields of an input: all unset, or one of them set
ScalarChoices ==
    {ZeroParseResponse}
    \cup {[ZeroParseResponse EXCEPT !.Location = v] : v \in {"Berlin", " "}}
    \cup {[ZeroParseResponse EXCEPT !.Dates.Checkin = v] : v \in {"2025-10-12"}}
    \cup {[ZeroParseResponse EXCEPT !.Dates.Checkout = v] : v \in {"2025-10-14"}}
    \cup {[ZeroParseResponse EXCEPT !.Guests.Adults = v] : v \in {2, 12}}
    \cup {[ZeroParseResponse EXCEPT !.Guests.Children = v] : v \in {1}}
    \cup {[ZeroParseResponse EXCEPT !.PriceMaxEUR = v] : v \in {F(120, 1), F(241, 2), F(1, 4)}}
    \cup {[ZeroParseResponse EXCEPT !.StarsMin = v] : v \in {4}}
    \cup {[ZeroParseResponse EXCEPT !.RatingMin = v] : v \in {F(8, 1), F(33, 4), F(-1, 2)}}

ArrayFields == UiFields \cup {"UnsupportedCriteria"}

GetArray(p, f) == IF f = "UnsupportedCriteria" THEN p.UnsupportedCriteria ELSE p.UiFilters[f]

SetArray(p, f, arr) ==
    IF f = "UnsupportedCriteria" THEN [p EXCEPT !.UnsupportedCriteria = arr]
    ELSE [p EXCEPT !.UiFilters[f] = arr]

FlattenInputs ==
    { SetArray([s EXCEPT !.FamilyFriendly = ff], f, arr) :
        s \in ScalarChoices, ff \in BOOLEAN, f \in ArrayFields, arr \in TagArrays }

(***************************************************************************)
(* The parts of the state a specification does not use stay idle.          *)
(***************************************************************************)
NoFacts == {}

NoScore == [ExactMatch |-> FALSE, Jaccard |-> DZero, F1 |-> DZero, LatencyMS |-> -1]

NoFrame == scoreLocals({}, {})

IdleFlatten ==
    /\ fIn = ZeroParseResponse
    /\ fOut = NoFacts
    /\ fVar = ZeroParseResponse
    /\ fVarOut = NoFacts
    /\ fpc = "idle"

IdleScore ==
    /\ pred = ZeroParseResponse
    /\ gt = ZeroParseResponse
    /\ q = NoScore
    /\ qSwap = NoScore
    /\ frame = NoFrame

IdleSlots ==
    /\ qs = <<>>
    /\ accAll = newAcc
    /\ nAll = 0
    /\ accPrev = newAcc
    /\ accRev = newAcc
    /\ nRev = 0
    /\ accEach = <<>>

IdleMetrics ==
    /\ mWork = <<>>
    /\ mFed = 0
    /\ mAcc = newAcc
    /\ mOut = <<>>

IdleMatch ==
    /\ kPred = ZeroParseResponse
    /\ kAccepts = <<>>
    /\ kOut = <<>>

IdleEval ==
    /\ results = <<>>
    /\ gtItems = <<>>
    /\ wantPerQuery = FALSE
    /\ epc = "idle"
    /\ gtMap = <<>>
    /\ openAcc = newAcc
    /\ claudeAcc = newAcc
    /\ perQuery = <<>>
    /\ ri = 0
    /\ ePrev = [openAcc |-> newAcc, claudeAcc |-> newAcc, perQuery |-> <<>>]
    /\ resp = <<>>
    /\ wantRaw = FALSE
    /\ resultsMissing = FALSE
    /\ eStatus = 0
    /\ eRawBody = <<>>

IdleExtract ==
    /\ xIn = ""
    /\ xOut = <<>>

IdleParse ==
    /\ pReq = NoRequest
    /\ pKeys = {}
    /\ pProducer = NoProducer
    /\ pCalls = NoCalls
    /\ pStatus = 0
    /\ pBody = <<>>
    /\ runLog = <<>>
    /\ runLogPrev = <<>>
    /\ pClock = 0
    /\ pServed = 0

IdleStore ==
    /\ file = NoFile
    /\ fileGt = <<>>
    /\ log0 = <<>>
    /\ fileHist = {}
    /\ sPc = <<>>
    /\ sArgs = <<>>
    /\ sData = <<>>
    /\ sNow = 0
    /\ vPc = "idle"
    /\ vAfter = {}
    /\ vSaw = <<>>
    /\ vGt = <<>>
    /\ vResp = <<>>

IdleConc ==
    /\ cRuns = <<>>
    /\ cGt = <<>>
    /\ heap = <<>>
    /\ cPc = <<>>
    /\ cMap = <<>>
    /\ cRefs = <<>>
    /\ cI = <<>>
    /\ cResp = <<>>

IdleService ==
    /\ IdleParse
    /\ IdleStore
    /\ IdleConc

\* the parts the specifications of the evaluation endpoint leave idle
IdleEngine ==
    /\ IdleMetrics
    /\ IdleMatch
    /\ IdleEval
    /\ IdleExtract

(***************************************************************************)
(* SpecFlatten: flatten called on an input, then on a variant of it.       *)
(***************************************************************************)
InitFlatten ==
    /\ IdleService
    /\ fIn \in FlattenInputs
    /\ fOut = NoFacts
    /\ fVar = fIn
    /\ fVarOut = NoFacts
    /\ fpc = "input"
    /\ IdleScore
    /\ IdleSlots
    /\ IdleEngine

FlattenCall ==
    /\ fpc = "input"
    /\ fOut' = flatten(fIn)
    /\ fpc' = "flat"
    /\ UNCHANGED <<serviceVars, fIn, fVar, fVarOut, scoreVars, slotVars,
                 metricVars, matchVars, evalVars, extractVars>>

\* the same input with the array of one field reordered
ReorderCall ==
    /\ fpc = "flat"
    /\ \E f \in ArrayFields :
         LET arr == GetArray(fIn, f)
         IN  \E pi \in Perms(Len(arr)) :
               /\ fVar' = SetArray(fIn, f, [i \in 1..Len(arr) |-> arr[pi[i]]])
               /\ fVarOut' = flatten(fVar')
    /\ fpc' = "reordered"
    /\ UNCHANGED <<serviceVars, fIn, fOut, scoreVars, slotVars,
                 metricVars, matchVars, evalVars, extractVars>>

\* the same input with a copy of one of its tags appended to the same array
DuplicateCall ==
    /\ fpc = "flat"
    /\ \E f \in ArrayFields :
         LET arr == GetArray(fIn, f)
         IN  \E i \in DOMAIN arr :
               /\ fVar' = SetArray(fIn, f, Append(arr, arr[i]))
               /\ fVarOut' = flatten(fVar')
    /\ fpc' = "duplicated"
    /\ UNCHANGED <<serviceVars, fIn, fOut, scoreVars, slotVars,
                 metricVars, matchVars, evalVars, extractVars>>

NextFlatten == FlattenCall \/ ReorderCall \/ DuplicateCall

SpecFlatten == InitFlatten /\ [][NextFlatten]_vars

(***************************************************************************)
(* SpecScore: scoreAgainstGT called on a pair of inputs, in both orders.   *)
(***************************************************************************)
\* scenario 1: Berlin, 2 adults, 1 child
Scenario1 ==
    [ZeroParseResponse EXCEPT !.Location = "Berlin",
                              !.Guests = [Adults |-> 2, Children |-> 1]]

\* scenario 2: the two inputs whose set fields are the ones the scenario names
Scenario2Pred == [ZeroParseResponse EXCEPT !.Location = "Berlin", !.StarsMin = 4]

Scenario2Truth == [ZeroParseResponse EXCEPT !.Location = "Berlin", !.PriceMaxEUR = F(120, 1)]

\* a query with a value in most fields: 11 facts
FullQuery ==
    [ZeroParseResponse EXCEPT !.Location = "Berlin",
                              !.Dates = [Checkin |-> "2025-10-12", Checkout |-> "2025-10-14"],
                              !.Guests = [Adults |-> 2, Children |-> 1],
                              !.PriceMaxEUR = F(120, 1),
                              !.StarsMin = 4,
                              !.RatingMin = F(8, 1),
                              !.UiFilters.Meals = <<"halfboard">>,
                              !.UiFilters.Wellness = <<"spa">>]

ScoreMeals == { <<>>, <<"breakfast", "wifi">>, <<"wifi", "breakfast">> }

ScoreInputs ==
    { [ZeroParseResponse EXCEPT !.Location = l, !.StarsMin = st, !.FamilyFriendly = ff,
                                !.UiFilters.Meals = m] :
        l \in {"", "Berlin"}, st \in {0, 4}, ff \in BOOLEAN, m \in ScoreMeals }
    \cup {Scenario1, Scenario2Truth, FullQuery}

InitScore ==
    /\ IdleService
    /\ pred \in ScoreInputs
    /\ gt \in ScoreInputs
    /\ q = NoScore
    /\ qSwap = NoScore
    /\ frame = NoFrame
    /\ IdleFlatten
    /\ IdleSlots
    /\ IdleEngine

ScoreCall ==
    /\ q = NoScore
    /\ frame' = scoreLocals(flatten(pred), flatten(gt))
    /\ q' = scoreAgainstGT(pred, gt)
    /\ UNCHANGED <<serviceVars, pred, gt, qSwap, flatVars, slotVars,
                 metricVars, matchVars, evalVars, extractVars>>

ScoreSwappedCall ==
    /\ qSwap = NoScore
    /\ qSwap' = scoreAgainstGT(gt, pred)
    /\ UNCHANGED <<serviceVars, pred, gt, q, frame, flatVars, slotVars,
                 metricVars, matchVars, evalVars, extractVars>>

NextScore == ScoreCall \/ ScoreSwappedCall

SpecScore == InitScore /\ [][NextScore]_vars

(***************************************************************************)
(* SpecSlots: addSlots fed a list of (pred, gt) pairs: into one acc in     *)
(* order, into one acc in reverse order, and pair by pair into fresh ones. *)
(***************************************************************************)
SlotPreds ==
    { [ZeroParseResponse EXCEPT !.Location = l, !.FamilyFriendly = ff,
                                !.UiFilters.Meals = m] :
        l \in {"", "Berlin"}, ff \in BOOLEAN, m \in {<<>>, <<"breakfast", "wifi">>} }

SlotTruths ==
    { [ZeroParseResponse EXCEPT !.Location = "Berlin", !.UiFilters.Meals = <<"breakfast">>],
      [ZeroParseResponse EXCEPT !.FamilyFriendly = TRUE,
                                !.UiFilters.Meals = <<"wifi", "breakfast">>],
      [ZeroParseResponse EXCEPT !.Location = "Hamburg"] }

SlotPairs == [pred : SlotPreds, gt : SlotTruths]

InitSlots ==
    /\ IdleService
    /\ qs \in UNION {[1..n -> SlotPairs] : n \in 1..MaxQueries}
    /\ accAll = newAcc
    /\ nAll = 0
    /\ accPrev = newAcc
    /\ accRev = newAcc
    /\ nRev = 0
    /\ accEach = <<>>
    /\ IdleFlatten
    /\ IdleScore
    /\ IdleEngine

\* accAll.addSlots(next pair)
FeedInOrder ==
    /\ nAll < Len(qs)
    /\ accPrev' = accAll
    /\ accAll' = addSlots(accAll, qs[nAll + 1].pred, qs[nAll + 1].gt)
    /\ nAll' = nAll + 1
    /\ UNCHANGED <<serviceVars, qs, accRev, nRev, accEach, flatVars, scoreVars,
                 metricVars, matchVars, evalVars, extractVars>>

\* accRev.addSlots(next pair from the end)
FeedInReverse ==
    /\ nAll = Len(qs)
    /\ nRev < Len(qs)
    /\ accRev' = addSlots(accRev, qs[Len(qs) - nRev].pred, qs[Len(qs) - nRev].gt)
    /\ nRev' = nRev + 1
    /\ UNCHANGED <<serviceVars, qs, accAll, nAll, accPrev, accEach, flatVars, scoreVars,
                 metricVars, matchVars, evalVars, extractVars>>

\* newAcc().addSlots(next pair)
FeedFresh ==
    /\ nRev = Len(qs)
    /\ Len(accEach) < Len(qs)
    /\ accEach' = Append(accEach, addSlots(newAcc, qs[Len(accEach) + 1].pred,
                                                    qs[Len(accEach) + 1].gt))
    /\ UNCHANGED <<serviceVars, qs, accAll, nAll, accPrev, accRev, nRev, flatVars, scoreVars,
                 metricVars, matchVars, evalVars, extractVars>>

NextSlots == FeedInOrder \/ FeedInReverse \/ FeedFresh

SpecSlots == InitSlots /\ [][NextSlots]_vars

(***************************************************************************)
(* SpecMetrics: the runs of one provider fed to its acc as the loop of     *)
(* evalHandler feeds them (scoreAgainstGT, add, addSlots, the ambiguity    *)
(* counters), then acc.metrics once the loop is over and n > 0.            *)
(***************************************************************************)
BerlinOnly == [ZeroParseResponse EXCEPT !.Location = "Berlin"]

BerlinBreakfast ==
    [ZeroParseResponse EXCEPT !.Location = "Berlin", !.UiFilters.Meals = <<"breakfast">>]

FamilyParking ==
    [ZeroParseResponse EXCEPT !.FamilyFriendly = TRUE, !.UiFilters.Parking = <<"garage">>]

BerlinStarsMeals ==
    [ZeroParseResponse EXCEPT !.Location = "Berlin", !.StarsMin = 4,
                              !.UiFilters.Meals = <<"halfboard", "wifi">>]

\* an ambiguous query whose parse equals the second acceptable interpretation
RunAccepted ==
    [ Parse |-> BerlinOnly,
      Gt |-> [ Query |-> "q1", Truth |-> BerlinBreakfast, Ambiguous |-> TRUE,
               AcceptableInterpretation |-> <<Scenario1, BerlinOnly>> ],
      Latency |-> 10 ]

\* an ambiguous query whose parse equals no acceptable interpretation
RunRejected ==
    [ Parse |-> FamilyParking,
      Gt |-> [ Query |-> "q2", Truth |-> ZeroParseResponse, Ambiguous |-> TRUE,
               AcceptableInterpretation |-> <<Scenario1>> ],
      Latency |-> 25 ]

\* a query not marked ambiguous, whose parse is listed as acceptable all the same
RunPlain ==
    [ Parse |-> BerlinStarsMeals,
      Gt |-> [ Query |-> "q3", Truth |-> FullQuery, Ambiguous |-> FALSE,
               AcceptableInterpretation |-> <<BerlinStarsMeals>> ],
      Latency |-> 10 ]

AcceptedCounts == {0, 1, 2, 23}

RejectedCounts == {0, 1, 17}

PlainCounts == {0, 1, 2}

Repeat(x, n) == [i \in 1..n |-> x]

Workloads ==
    { Repeat(RunAccepted, a) \o Repeat(RunRejected, b) \o Repeat(RunPlain, c) :
        a \in AcceptedCounts, b \in RejectedCounts, c \in PlainCounts } \ {<<>>}

InitMetrics ==
    /\ IdleService
    /\ mWork \in Workloads
    /\ mFed = 0
    /\ mAcc = newAcc
    /\ mOut = <<>>
    /\ IdleFlatten
    /\ IdleScore
    /\ IdleSlots
    /\ IdleMatch
    /\ IdleEval
    /\ IdleExtract

\* one pass of the loop body for this provider
MetricsFeed ==
    /\ mFed < Len(mWork)
    /\ \E run \in {mWork[mFed + 1]} :
          \E s \in {scoreAgainstGT(run.Parse, run.Gt.Truth)} :
             mAcc' = evalProvider(mAcc, run.Parse, run.Gt, run.Latency, s)
    /\ mFed' = mFed + 1
    /\ UNCHANGED <<serviceVars, mWork, mOut, flatVars, scoreVars, slotVars, matchVars, evalVars,
                   extractVars>>

\* if acc.n > 0 { m := acc.metrics() }
MetricsFinalize ==
    /\ mFed = Len(mWork)
    /\ mOut = <<>>
    /\ mAcc.n > 0
    /\ mOut' = <<metrics(mAcc)>>
    /\ UNCHANGED <<serviceVars, mWork, mFed, mAcc, flatVars, scoreVars, slotVars, matchVars, evalVars,
                   extractVars>>

NextMetrics == MetricsFeed \/ MetricsFinalize

SpecMetrics == InitMetrics /\ [][NextMetrics]_vars

(***************************************************************************)
(* SpecMatch: matchesAnyAcceptable called on a prediction and a list of    *)
(* acceptable interpretations.                                             *)
(***************************************************************************)
MaxAccept == 2

BerlinTwoMeals ==
    [ZeroParseResponse EXCEPT !.Location = "Berlin",
                              !.UiFilters.Meals = <<"breakfast", "wifi">>]

\* the same facts as BerlinTwoMeals, written differently
BerlinTwoMealsAgain ==
    [ZeroParseResponse EXCEPT !.Location = "Berlin",
                              !.UiFilters.Meals = <<"wifi", " breakfast", "wifi">>]

MatchParses == {BerlinOnly, BerlinBreakfast, BerlinTwoMeals, BerlinTwoMealsAgain, Scenario1}

InitMatch ==
    /\ IdleService
    /\ kPred \in MatchParses
    /\ kAccepts \in UNION {[1..n -> MatchParses] : n \in 0..MaxAccept}
    /\ kOut = <<>>
    /\ IdleFlatten
    /\ IdleScore
    /\ IdleSlots
    /\ IdleMetrics
    /\ IdleEval
    /\ IdleExtract

MatchCall ==
    /\ kOut = <<>>
    /\ kOut' = <<matchesAnyAcceptable(kPred, kAccepts)>>
    /\ UNCHANGED <<serviceVars, kPred, kAccepts, flatVars, scoreVars, slotVars, metricVars, evalVars,
                   extractVars>>

NextMatch == MatchCall

SpecMatch == InitMatch /\ [][NextMatch]_vars

(***************************************************************************)
(* SpecEval: evalHandler from the decoded files to the encoded response:   *)
(* the ground-truth map and the fresh accumulators, the loop over the      *)
(* stored runs one run at a time, then the snapshot with the sorted rows.  *)
(* parseHandler stores a run only when a provider returned a parse, so a   *)
(* stored run has at least one of its two parses.  Its time is the wall    *)
(* clock at the moment it was stored, so file order need not be time order.*)
(***************************************************************************)
MaxRuns == 2

\* query q1, not ambiguous, its acceptable list filled in all the same
GtPlain ==
    [ Query |-> "q1", Truth |-> Scenario2Pred, Ambiguous |-> FALSE,
      AcceptableInterpretation |-> <<Scenario2Pred>> ]

\* query q1 again, ambiguous, another truth
GtAmbiguous ==
    [ Query |-> "q1", Truth |-> Scenario2Truth, Ambiguous |-> TRUE,
      AcceptableInterpretation |-> <<Scenario1, Scenario2Pred>> ]

\* query q2, ambiguous, no acceptable interpretation listed
GtNoneAcceptable ==
    [ Query |-> "q2", Truth |-> Scenario2Pred, Ambiguous |-> TRUE,
      AcceptableInterpretation |-> <<>> ]

Corpora ==
    { <<>>, <<GtPlain>>, <<GtAmbiguous>>, <<GtPlain, GtAmbiguous>>,
      <<GtAmbiguous, GtPlain>>, <<GtAmbiguous, GtNoneAcceptable>>,
      <<GtNoneAcceptable, GtPlain, GtAmbiguous>> }

StoredRun(query, openai, claude, latency, time) ==
    [ Query |-> query, Response |-> [OpenAI |-> openai, Claude |-> claude],
      Latency |-> latency, Time |-> time ]

StoredRuns ==
    { StoredRun("q1", <<Scenario2Truth>>, <<Scenario2Pred>>, 10, 2),
      StoredRun("q1", <<Scenario2Pred>>, <<>>, 25, 1),
      StoredRun("q1", <<BerlinOnly>>, <<>>, 25, 2),
      StoredRun("q2", <<Scenario2Pred>>, <<Scenario2Pred>>, 10, 2),
      StoredRun("q9", <<Scenario2Pred>>, <<Scenario2Truth>>, 10, 1),
      StoredRun("q2", <<>>, <<Scenario2Truth>>, 25, 1) }

InitEval ==
    /\ IdleService
    /\ results \in UNION {[1..n -> StoredRuns] : n \in 0..MaxRuns}
    /\ gtItems \in Corpora
    /\ wantPerQuery \in BOOLEAN
    /\ epc = "start"
    /\ gtMap = <<>>
    /\ openAcc = newAcc
    /\ claudeAcc = newAcc
    /\ perQuery = <<>>
    /\ ri = 0
    /\ ePrev = [openAcc |-> newAcc, claudeAcc |-> newAcc, perQuery |-> <<>>]
    /\ resp = <<>>
    /\ wantRaw \in BOOLEAN
    /\ resultsMissing \in {b \in BOOLEAN : b => results = <<>>}
    /\ eStatus = 0
    /\ eRawBody = <<>>
    /\ IdleFlatten
    /\ IdleScore
    /\ IdleSlots
    /\ IdleMetrics
    /\ IdleMatch
    /\ IdleExtract

\* raw mode: the results file as it is, or 404 when it cannot be read
EvalRaw ==
    /\ epc = "start"
    /\ wantRaw
    /\ eStatus' = IF resultsMissing THEN 404 ELSE 200
    /\ eRawBody' = IF resultsMissing THEN <<>> ELSE <<results>>
    /\ epc' = "raw"
    /\ UNCHANGED <<serviceVars, results, gtItems, wantPerQuery, gtMap, openAcc, claudeAcc,
                   perQuery, ri, ePrev, resp, wantRaw, resultsMissing,
                   flatVars, scoreVars, slotVars, metricVars, matchVars, extractVars>>

\* mutant of EvalLoad: results that cannot be read are answered like in raw mode
EvalLoad_NotFound ==
    /\ epc = "start"
    /\ ~wantRaw
    /\ IF resultsMissing
       THEN /\ eStatus' = 404
            /\ epc' = "raw"
            /\ UNCHANGED <<gtMap, openAcc, claudeAcc, perQuery>>
       ELSE /\ gtMap' = gtMapOf(gtItems)
            /\ openAcc' = newAcc
            /\ claudeAcc' = newAcc
            /\ perQuery' = <<>>
            /\ epc' = "loop"
            /\ UNCHANGED eStatus
    /\ UNCHANGED <<serviceVars, results, gtItems, wantPerQuery, ri, ePrev, resp,
                   wantRaw, resultsMissing, eRawBody,
                   flatVars, scoreVars, slotVars, metricVars, matchVars, extractVars>>

\* the results and the corpus as decoded (nil when a file cannot be read);
\* gtMap built from gtItems; openAcc, claudeAcc := newAcc(); perQuery := nil
EvalLoad ==
    /\ epc = "start"
    /\ ~wantRaw
    /\ gtMap' = gtMapOf(gtItems)
    /\ openAcc' = newAcc
    /\ claudeAcc' = newAcc
    /\ perQuery' = <<>>
    /\ epc' = "loop"
    /\ UNCHANGED <<serviceVars, results, gtItems, wantPerQuery, ri, ePrev, resp,
                   wantRaw, resultsMissing, eStatus, eRawBody,
                   flatVars, scoreVars, slotVars, metricVars, matchVars, extractVars>>

\* one pass of for _, run := range results
EvalRun ==
    /\ epc = "loop"
    /\ ri < Len(results)
    /\ \E st \in {[openAcc |-> openAcc, claudeAcc |-> claudeAcc, perQuery |-> perQuery]} :
          \E new \in {evalRun(st, results[ri + 1], gtMap, wantPerQuery)} :
             /\ ePrev' = st
             /\ openAcc' = new.openAcc
             /\ claudeAcc' = new.claudeAcc
             /\ perQuery' = new.perQuery
    /\ ri' = ri + 1
    /\ UNCHANGED <<serviceVars, results, gtItems, wantPerQuery, epc, gtMap, resp,
                   wantRaw, resultsMissing, eStatus, eRawBody,
                   flatVars, scoreVars, slotVars, metricVars, matchVars, extractVars>>

\* the response: the metrics of the providers that scored a run and, when
\* asked for, the rows sorted by time
EvalRespond ==
    /\ epc = "loop"
    /\ ri = Len(results)
    /\ \E snap \in {evalSnapshot(openAcc, claudeAcc)}, sorted \in SortedByTime(perQuery) :
         /\ perQuery' = IF wantPerQuery THEN sorted ELSE perQuery
         /\ resp' = << [ OpenAI       |-> snap.OpenAI,
                         Claude       |-> snap.Claude,
                         PerQueryDiff |-> IF wantPerQuery THEN sorted ELSE <<>> ] >>
    /\ epc' = "done"
    /\ eStatus' = 200
    /\ UNCHANGED <<serviceVars, results, gtItems, wantPerQuery, gtMap, openAcc, claudeAcc, ri, ePrev,
                   wantRaw, resultsMissing, eRawBody,
                   flatVars, scoreVars, slotVars, metricVars, matchVars, extractVars>>

NextEval == EvalRaw \/ EvalLoad \/ EvalRun \/ EvalRespond

SpecEval == InitEval /\ [][NextEval]_vars

(***************************************************************************)
(* SpecExtract: extractJSONObject called on the raw text of a completion.  *)
(***************************************************************************)
MaxText == 5

TextChars == <<"{", "}", "a">>

RECURSIVE Concat(_)
Concat(parts) == IF parts = <<>> THEN "" ELSE Head(parts) \o Concat(Tail(parts))

\* scenario 4: an object with a nested object, prose on both sides
ProseAroundObject == "Here is your answer: {\"a\": {\"b\": 1}} thanks"

\* scenario 4: an object that is never closed
UnterminatedObject == "{\"a\": 1"

Texts ==
    { Concat([i \in DOMAIN f |-> TextChars[f[i]]]) :
        f \in UNION {[1..n -> DOMAIN TextChars] : n \in 0..MaxText} }
    \cup {ProseAroundObject, UnterminatedObject}

InitExtract ==
    /\ IdleService
    /\ xIn \in Texts
    /\ xOut = <<>>
    /\ IdleFlatten
    /\ IdleScore
    /\ IdleSlots
    /\ IdleMetrics
    /\ IdleMatch
    /\ IdleEval

ExtractCall ==
    /\ xOut = <<>>
    /\ xOut' = <<extractJSONObject(xIn)>>
    /\ UNCHANGED <<serviceVars, xIn, flatVars, scoreVars, slotVars, metricVars, matchVars, evalVars>>

NextExtract == ExtractCall

SpecExtract == InitExtract /\ [][NextExtract]_vars

(***************************************************************************)
(* SpecParse: requests to POST /v1/parse served one after the other.  The  *)
(* environment (API keys, what the providers answer) is fixed at the       *)
(* start; every request runs parseHandler to its answer, StoreResult       *)
(* included.                                                               *)
(***************************************************************************)
MaxServed == 2   \* most requests served in one behaviour

CallFailed == Completion("openai: 429 rate limit", "")

\* what the first provider may answer
Completions ==
    { CallFailed,
      Completion("", "Leider kein Hotel."),
      Completion("", "{\"location\": \"Berlin\""),
      Completion("", "{oops}"),
      Completion("", "{\"location\": \"a}b\"}"),
      Completion("", "{\"location\": \"Berlin\", \"mood\": 1}"),
      Completion("", "{\"stars_min\": \"4\"}"),
      Completion("", "{\"stars_min\": 6}"),
      Completion("", "{\"guests\": {\"adults\": -1, \"children\": 2}}"),
      Completion("", "{\"rating_min\": 10.5}"),
      Completion("", "Hier: {\"location\": \"Berlin\", \"stars_min\": 4} Ende"),
      Completion("", "{\"Location\": \"Berlin\", \"price_max_eur\": 120}"),
      Completion("", "{\"stars_min\": 5, \"rating_min\": 10, \"guests\": {\"adults\": 0}}") }

\* what the second provider may answer
ClaudeCompletions ==
    { Completion("claude: 529 overloaded", ""),
      Completion("", "Ich habe keine Antwort }{"),
      Completion("", "{\"stars_min\": -1}"),
      Completion("", "{\"location\": \"Berlin\", \"unsupported_criteria\": [\"ruhig\"]} {"),
      Completion("", "Antwort:\n{\"location\": \"Berlin\", \"stars_min\": 4}\n") }

\* the answers of the two providers to one query: each answer of one
\* provider beside a failed call and beside a valid parse of the other
ProducerAnswers ==
    { a \in Completions \X ClaudeCompletions :
        \/ a[1] \in {CallFailed,
                     Completion("", "{\"stars_min\": 5, \"rating_min\": 10, \"guests\": {\"adults\": 0}}")}
        \/ a[2] \in {Completion("claude: 529 overloaded", ""),
                     Completion("", "Antwort:\n{\"location\": \"Berlin\", \"stars_min\": 4}\n")} }

\* what a provider answers when it is asked again within a request
SecondAnswer == Completion("", "{\"location\": \"Berlin\", \"stars_min\": 4}")

Requests ==
    { Request("POST", TRUE, "q1", ""),
      Request("POST", TRUE, "q1", " Claude "),
      Request("POST", TRUE, "q2", "Both"),
      Request("GET", TRUE, "q1", "both"),
      Request("POST", FALSE, "", ""),
      Request("POST", TRUE, "  ", "openai") }

\* the results file when the server starts: absent, or left by an earlier
\* process
EarlierLogs == { <<>>, <<StoredRun("q1", <<Scenario2Pred>>, <<>>, 25, 0)>> }

InitParse ==
    /\ pReq = NoRequest
    /\ pKeys \in SUBSET Providers
    /\ pProducer \in { [OpenAI |-> <<a[1], SecondAnswer>>, Claude |-> <<a[2], SecondAnswer>>] :
                          a \in ProducerAnswers }
    /\ pCalls = NoCalls
    /\ pStatus = 0
    /\ pBody = <<>>
    /\ runLog \in EarlierLogs
    /\ runLogPrev = runLog
    /\ pClock = 0
    /\ pServed = 0
    /\ IdleStore
    /\ IdleConc
    /\ IdleFlatten
    /\ IdleScore
    /\ IdleSlots
    /\ IdleEngine

\* one request from its arrival to its answer; a request takes one
\* millisecond of the clock
ParseRequest ==
    /\ pServed < MaxServed
    /\ \E req \in Requests :
         \E a \in {parseHandler(req, pKeys, pProducer)} :
            /\ pReq' = req
            /\ pCalls' = a.calls
            /\ pStatus' = a.status
            /\ pBody' = IF a.stored THEN <<a.results>> ELSE <<>>
            /\ runLog' = IF a.stored
                         THEN StoreResult(runLog, req.Query, a.results, 1, pClock + 1)
                         ELSE runLog
            /\ pClock' = pClock + 1
    /\ runLogPrev' = runLog
    /\ pServed' = pServed + 1
    /\ UNCHANGED <<pKeys, pProducer, storeVars, concVars, flatVars, scoreVars, slotVars, metricVars,
                   matchVars, evalVars, extractVars>>

NextParse == ParseRequest

SpecParse == InitParse /\ [][NextParse]_vars

(***************************************************************************)
(* SpecStore: parse requests that have reached StoreResult and one         *)
(* evaluation request, each in its own goroutine of the HTTP server.       *)
(* Nothing orders their file operations, so the steps of StoreResult       *)
(* (read and append, open, write) and of evalHandler (read results, read   *)
(* corpus, score) interleave freely.                                       *)
(***************************************************************************)
MaxWriters == 2   \* most StoreResult calls in flight

Writers == 1..MaxWriters

\* what a parse request hands to StoreResult
StoreArgs ==
    { [Query |-> "q1", Response |-> [OpenAI |-> <<Scenario2Pred>>, Claude |-> <<>>],
       Latency |-> 10],
      [Query |-> "q1", Response |-> [OpenAI |-> <<Scenario2Truth>>,
                                     Claude |-> <<Scenario2Pred>>],
       Latency |-> 25] }

InitStore ==
    /\ log0 \in EarlierLogs
    /\ file = FileOf(log0)
    /\ fileGt \in {<<GtPlain>>, <<GtAmbiguous>>}
    /\ fileHist = {log0}
    /\ sPc = [w \in Writers |-> "call"]
    /\ sArgs \in [Writers -> StoreArgs]
    /\ sData = [w \in Writers |-> <<>>]
    /\ sNow = 0
    /\ vPc = "idle"
    /\ vAfter = {}
    /\ vSaw = <<>>
    /\ vGt = <<>>
    /\ vResp = <<>>
    /\ IdleParse
    /\ IdleConc
    /\ IdleFlatten
    /\ IdleScore
    /\ IdleSlots
    /\ IdleEngine

\* StoreResult up to json.MarshalIndent: the file read and decoded, the
\* new entry appended with the time of the moment
StoreRead(w) ==
    /\ sPc[w] = "call"
    /\ sData' = [sData EXCEPT ![w] = StoreResult(readResults(file), sArgs[w].Query,
                                                 sArgs[w].Response, sArgs[w].Latency,
                                                 sNow + 1)]
    /\ sNow' = sNow + 1
    /\ sPc' = [sPc EXCEPT ![w] = "read"]
    /\ UNCHANGED <<file, fileGt, log0, fileHist, sArgs, vPc, vAfter, vSaw, vGt, vResp,
                   parseVars, concVars, flatVars, scoreVars, slotVars, metricVars,
                   matchVars, evalVars, extractVars>>

\* os.WriteFile: the open with O_TRUNC
StoreOpen(w) ==
    /\ sPc[w] = "read"
    /\ file' = Truncated
    /\ sPc' = [sPc EXCEPT ![w] = "opened"]
    /\ UNCHANGED <<fileGt, log0, fileHist, sArgs, sData, sNow, vPc, vAfter, vSaw, vGt,
                   vResp, parseVars, concVars, flatVars, scoreVars, slotVars, metricVars,
                   matchVars, evalVars, extractVars>>

\* os.WriteFile: the write and the close; StoreResult returns
StoreWrite(w) ==
    /\ sPc[w] = "opened"
    /\ \E f \in {written(file, sData[w])} :
         /\ file' = f
         /\ fileHist' = IF f.ok THEN fileHist \cup {f.runs} ELSE fileHist
    /\ sPc' = [sPc EXCEPT ![w] = "returned"]
    /\ UNCHANGED <<fileGt, log0, sArgs, sData, sNow, vPc, vAfter, vSaw, vGt, vResp,
                   parseVars, concVars, flatVars, scoreVars, slotVars, metricVars,
                   matchVars, evalVars, extractVars>>

\* evalHandler: the results file read and decoded
ServeReadResults ==
    /\ vPc = "idle"
    /\ vSaw' = readResults(file)
    /\ vAfter' = {w \in Writers : sPc[w] = "returned"}
    /\ vPc' = "read"
    /\ UNCHANGED <<file, fileGt, log0, fileHist, sPc, sArgs, sData, sNow, vGt, vResp,
                   parseVars, concVars, flatVars, scoreVars, slotVars, metricVars,
                   matchVars, evalVars, extractVars>>

\* evalHandler: the ground-truth file read and decoded
ServeReadTruth ==
    /\ vPc = "read"
    /\ vGt' = fileGt
    /\ vPc' = "loaded"
    /\ UNCHANGED <<file, fileGt, log0, fileHist, sPc, sArgs, sData, sNow, vAfter, vSaw,
                   vResp, parseVars, concVars, flatVars, scoreVars, slotVars, metricVars,
                   matchVars, evalVars, extractVars>>

\* evalHandler: the loop over what was read and the response
ServeScore ==
    /\ vPc = "loaded"
    /\ vResp' = <<evalHandler(vSaw, vGt)>>
    /\ vPc' = "done"
    /\ UNCHANGED <<file, fileGt, log0, fileHist, sPc, sArgs, sData, sNow, vAfter, vSaw,
                   vGt, parseVars, concVars, flatVars, scoreVars, slotVars, metricVars,
                   matchVars, evalVars, extractVars>>

NextStore ==
    \/ \E w \in Writers : StoreRead(w) \/ StoreOpen(w) \/ StoreWrite(w)
    \/ ServeReadResults
    \/ ServeReadTruth
    \/ ServeScore

SpecStore == InitStore /\ [][NextStore]_vars

(***************************************************************************)
(* SpecConc: evaluation requests served at the same time over the same two *)
(* files, none asking for raw or per_query.  Each runs evalHandler in its  *)
(* own goroutine: it decodes the files, builds its gtMap, allocates its    *)
(* two accumulators, goes through the runs one at a time and responds.     *)
(* The accumulators live on the heap and the handler holds references to   *)
(* them, so the steps of the requests interleave on one heap.              *)
(***************************************************************************)
MaxRequests == 2   \* most evaluation requests in flight

Evaluators == 1..MaxRequests

ConcLogs ==
    { <<>>,
      <<StoredRun("q1", <<Scenario2Pred>>, <<>>, 25, 1)>>,
      <<StoredRun("q1", <<Scenario2Truth>>, <<Scenario2Pred>>, 10, 2),
        StoredRun("q1", <<BerlinOnly>>, <<>>, 25, 2)>>,
      <<StoredRun("q2", <<Scenario2Pred>>, <<Scenario2Pred>>, 10, 2),
        StoredRun("q1", <<Scenario2Truth>>, <<Scenario2Pred>>, 10, 2)>> }

ConcCorpora == { <<GtPlain>>, <<GtPlain, GtAmbiguous>>, <<GtNoneAcceptable, GtPlain>> }

NoRefs == [openAcc |-> 0, claudeAcc |-> 0]

\* mutant of allocAcc: one accumulator for the whole package
allocAcc_Shared(h) ==
    [heap |-> IF h = <<>> THEN <<newAcc>> ELSE [h EXCEPT ![1] = newAcc], ref |-> 1]

\* newAcc(): a reference to a new accumulator with nothing counted
allocAcc(h) ==
    [heap |-> Append(h, newAcc), ref |-> Len(h) + 1]

InitConc ==
    /\ cRuns \in ConcLogs
    /\ cGt \in ConcCorpora
    /\ heap = <<>>
    /\ cPc = [r \in Evaluators |-> "start"]
    /\ cMap = [r \in Evaluators |-> <<>>]
    /\ cRefs = [r \in Evaluators |-> NoRefs]
    /\ cI = [r \in Evaluators |-> 0]
    /\ cResp = [r \in Evaluators |-> <<>>]
    /\ IdleParse
    /\ IdleStore
    /\ IdleFlatten
    /\ IdleScore
    /\ IdleSlots
    /\ IdleEngine

\* the files decoded, gtMap built, openAcc := newAcc(); claudeAcc := newAcc()
ConcLoad(r) ==
    /\ cPc[r] = "start"
    /\ cMap' = [cMap EXCEPT ![r] = gtMapOf(cGt)]
    /\ \E o \in {allocAcc(heap)} :
         \E c \in {allocAcc(o.heap)} :
            /\ heap' = c.heap
            /\ cRefs' = [cRefs EXCEPT ![r] = [openAcc |-> o.ref, claudeAcc |-> c.ref]]
    /\ cPc' = [cPc EXCEPT ![r] = "loop"]
    /\ UNCHANGED <<cRuns, cGt, cI, cResp, parseVars, storeVars, flatVars, scoreVars,
                   slotVars, metricVars, matchVars, evalVars, extractVars>>

\* one pass of for _, run := range results, on the accumulators the
\* request's references lead to
ConcRun(r) ==
    /\ cPc[r] = "loop"
    /\ cI[r] < Len(cRuns)
    /\ \E st \in {[openAcc |-> heap[cRefs[r].openAcc], claudeAcc |-> heap[cRefs[r].claudeAcc],
                    perQuery |-> <<>>]} :
         \E new \in {evalRun(st, cRuns[cI[r] + 1], cMap[r], FALSE)} :
            heap' = [heap EXCEPT ![cRefs[r].openAcc] = new.openAcc,
                                 ![cRefs[r].claudeAcc] = new.claudeAcc]
    /\ cI' = [cI EXCEPT ![r] = cI[r] + 1]
    /\ UNCHANGED <<cRuns, cGt, cPc, cMap, cRefs, cResp, parseVars, storeVars, flatVars,
                   scoreVars, slotVars, metricVars, matchVars, evalVars, extractVars>>

\* the response from the accumulators the request's references lead to
ConcRespond(r) ==
    /\ cPc[r] = "loop"
    /\ cI[r] = Len(cRuns)
    /\ \E snap \in {evalSnapshot(heap[cRefs[r].openAcc], heap[cRefs[r].claudeAcc])} :
         cResp' = [cResp EXCEPT ![r] = << [ OpenAI       |-> snap.OpenAI,
                                            Claude       |-> snap.Claude,
                                            PerQueryDiff |-> <<>> ] >>]
    /\ cPc' = [cPc EXCEPT ![r] = "done"]
    /\ UNCHANGED <<cRuns, cGt, heap, cMap, cRefs, cI, parseVars, storeVars, flatVars,
                   scoreVars, slotVars, metricVars, matchVars, evalVars, extractVars>>

NextConc == \E r \in Evaluators : ConcLoad(r) \/ ConcRun(r) \/ ConcRespond(r)

SpecConc == InitConc /\ [][NextConc]_vars

(***************************************************************************)
(* Vocabulary of the flatten properties.                                   *)
(***************************************************************************)
HasPrefix(s, p) == Len(s) >= Len(p) /\ SubSeq(s, 1, Len(p)) = p

IsBlank(s) == \A i \in 1..Len(s) : IsSpace(SubSeq(s, i, i))

\* the facts of a set that belong to one slot
SlotFacts(S, slot) == {k \in S : HasPrefix(k, slot \o "=")}

\* the text after "<slot>=" of a fact of that slot
FactValue(k, slot) == SubSeq(k, Len(slot) + 2, Len(k))

PrefixOf(f) ==
    IF f = "UnsupportedCriteria" THEN "unsupported"
    ELSE UiSlots[CHOOSE i \in DOMAIN UiSlots : UiSlots[i][2] = f][1]

NonBlankEntries(arr) == {i \in DOMAIN arr : ~IsBlank(arr[i])}

\* C6: flatten is order-insensitive: the input with the elements of one
\* filter-category array (or of the unsupported-criteria array) reordered,
\* the identity reordering included, flattens to the identical FactSet.
C6_OrderInsensitive == fpc = "reordered" => fVarOut = fOut

\* a reordering that moved two different tags, both of which became facts
C6_Witness ==
    /\ fpc = "reordered"
    /\ \E f \in ArrayFields :
         /\ GetArray(fVar, f) # GetArray(fIn, f)
         /\ Cardinality(SlotFacts(fVarOut, PrefixOf(f))) = 2

\* C7: flatten collapses duplicates: appending a copy of a tag already
\* present in a category leaves the FactSet unchanged, and a category holds
\* one fact per distinct (trimmed, non-blank) tag value however often the
\* value occurs.
C7_DuplicatesCollapse ==
    fpc = "duplicated" =>
        /\ fVarOut = fOut
        /\ \A f \in ArrayFields :
             LET arr == GetArray(fVar, f)
             IN  Cardinality(SlotFacts(fVarOut, PrefixOf(f)))
                   = Cardinality({TrimSpace(arr[i]) : i \in NonBlankEntries(arr)})

\* a non-blank tag that occurs twice in one array and is one fact
C7_Witness ==
    /\ fpc = "duplicated"
    /\ \E f \in ArrayFields :
         LET arr == GetArray(fVar, f)
         IN  \E i, j \in NonBlankEntries(arr) :
               /\ i # j
               /\ arr[i] = arr[j]
               /\ Cardinality(SlotFacts(fVarOut, PrefixOf(f))) = 1

\* exactly one family_friendly fact, and it renders the flag
OneFamilyFriendlyFact(p, S) ==
    SlotFacts(S, "family_friendly") = {"family_friendly=" \o FmtT(p.FamilyFriendly)}

\* no fact for a numeric field that is zero
NoFactForZero(p, S) ==
    /\ p.Guests.Adults = 0 => SlotFacts(S, "guests.adults") = {}
    /\ p.Guests.Children = 0 => SlotFacts(S, "guests.children") = {}
    /\ FIsZero(p.PriceMaxEUR) => SlotFacts(S, "price_max_eur") = {}
    /\ p.StarsMin = 0 => SlotFacts(S, "stars_min") = {}
    /\ FIsZero(p.RatingMin) => SlotFacts(S, "rating_min") = {}

\* no fact for a blank tag or unsupported-criteria entry
NoFactForBlankEntry(p, S) ==
    \A f \in ArrayFields :
        /\ \A k \in SlotFacts(S, PrefixOf(f)) : ~IsBlank(FactValue(k, PrefixOf(f)))
        /\ Cardinality(SlotFacts(S, PrefixOf(f)))
             <= Cardinality(NonBlankEntries(GetArray(p, f)))

\* C8 (as claimed): flatten emits exactly one family_friendly fact and no
\* fact for any other field whose value is empty, zero or blank, the
\* string fields location, check-in and check-out included.
C8_OmitsEmptyZeroBlank ==
    fpc # "input" =>
        /\ OneFamilyFriendlyFact(fIn, fOut)
        /\ NoFactForZero(fIn, fOut)
        /\ NoFactForBlankEntry(fIn, fOut)
        /\ IsBlank(fIn.Location) => SlotFacts(fOut, "location") = {}
        /\ IsBlank(fIn.Dates.Checkin) => SlotFacts(fOut, "dates.checkin") = {}
        /\ IsBlank(fIn.Dates.Checkout) => SlotFacts(fOut, "dates.checkout") = {}

\* what flatten does guarantee: the string fields are omitted only when
\* they are the empty string; a whitespace-only string is not trimmed
OmitsEmptyAndZero ==
    fpc # "input" =>
        /\ OneFamilyFriendlyFact(fIn, fOut)
        /\ NoFactForZero(fIn, fOut)
        /\ NoFactForBlankEntry(fIn, fOut)
        /\ fIn.Location = "" => SlotFacts(fOut, "location") = {}
        /\ fIn.Dates.Checkin = "" => SlotFacts(fOut, "dates.checkin") = {}
        /\ fIn.Dates.Checkout = "" => SlotFacts(fOut, "dates.checkout") = {}

(***************************************************************************)
(* Properties of scoreAgainstGT.                                           *)
(***************************************************************************)
Scored == q # NoScore

ScoredBothWays == q # NoScore /\ qSwap # NoScore

\* a float64 that is a number
IsNumber(x) == ~x.nan

\* the float64 written n/d: the one nearest to the quotient of the integers
DRatio(n, d) == DDiv(DFromInt(n), DFromInt(d))

\* n/d (n >= 0, d > 0) rounded to hundredths, as a count of hundredths
Hundredths(n, d) == (200 * n + d) \div (2 * d)

\* n/d lies exactly half way between two hundredths
IsTie(n, d) == (200 * n) % d = 0 /\ ((200 * n) \div d) % 2 = 1

\* C1 (as claimed): exactMatch holds iff flatten(prediction) and
\* flatten(reference) are the same set; with I = |P \cap R| the reported F1
\* is the 2-decimal rounding of the harmonic mean of I/|P| and I/|R|
\* (2I/(|P|+|R|), 0 when I = 0) and the reported Jaccard is the 2-decimal
\* rounding of I / (|P| + |R| - I), for every pair of inputs.
C1_ScoreDefinition ==
    Scored =>
        LET P == flatten(pred)
            R == flatten(gt)
            I == Cardinality(P \cap R)
            U == Cardinality(P) + Cardinality(R) - I
        IN  /\ q.ExactMatch <=> (P = R)
            /\ q.F1 = DRatio(IF I = 0 THEN 0
                             ELSE Hundredths(2 * I, Cardinality(P) + Cardinality(R)), 100)
            /\ q.Jaccard = DRatio(IF U = 0 THEN 0 ELSE Hundredths(I, U), 100)

\* what scoreAgainstGT does guarantee: the same, the F1 left open where the
\* harmonic mean lies half way between two hundredths
ScoreDefinitionOffTies ==
    Scored =>
        LET P == flatten(pred)
            R == flatten(gt)
            I == Cardinality(P \cap R)
            S == Cardinality(P) + Cardinality(R)
            U == S - I
        IN  /\ q.ExactMatch <=> (P = R)
            /\ ~IsTie(2 * I, S) =>
                  q.F1 = DRatio(IF I = 0 THEN 0 ELSE Hundredths(2 * I, S), 100)
            /\ q.Jaccard = DRatio(IF U = 0 THEN 0 ELSE Hundredths(I, U), 100)

\* the pair on which the reported F1 is not the rounded harmonic mean:
\* 5 facts against 11 with 3 in common, 2 * 3 / 16 = 0.375
F1BelowTie ==
    /\ Scored
    /\ Cardinality(flatten(pred)) = 5
    /\ Cardinality(flatten(gt)) = 11
    /\ frame.inter = 3
    /\ q.F1 = DRatio(37, 100)

\* C2: exact match is reflexive: score(p, p) has exactMatch = true and
\* F1 = Jaccard = 1.0, unless the FactSet is empty, where exactMatch is still
\* true and F1 = Jaccard = 0.
C2_Reflexive ==
    (Scored /\ pred = gt) =>
        /\ q.ExactMatch
        /\ IF flatten(pred) = {}
           THEN DIsZero(q.F1) /\ DIsZero(q.Jaccard)
           ELSE q.F1 = DFromInt(1) /\ q.Jaccard = DFromInt(1)

\* scenario 1 scored against itself
C2_Witness ==
    /\ Scored
    /\ pred = Scenario1
    /\ gt = Scenario1
    /\ q.F1 = DFromInt(1)

\* C3: scoring is symmetric in Jaccard and exactMatch.
C3_Symmetric ==
    ScoredBothWays =>
        /\ q.Jaccard = qSwap.Jaccard
        /\ q.ExactMatch = qSwap.ExactMatch

\* both orders scored for a prediction that is a proper part of the reference
C3_Witness ==
    /\ ScoredBothWays
    /\ flatten(pred) \subseteq flatten(gt)
    /\ flatten(pred) # flatten(gt)
    /\ ~DIsZero(q.Jaccard)

AtScenario2 == Scored /\ pred = Scenario2Pred /\ gt = Scenario2Truth

EmptyScores == scoreLocals({}, {})

\* C5: score never faults on a zero denominator: every ratio it computes is
\* a number; precision + recall = 0 gives F1 = 0; an empty union gives
\* Jaccard = 0; two empty FactSets give precision 0, recall 0, F1 = 0,
\* Jaccard = 0 and exactMatch = true.
C5_ZeroDenominators ==
    /\ Scored =>
         /\ IsNumber(frame.prec) /\ IsNumber(frame.rec)
         /\ IsNumber(frame.f1) /\ IsNumber(frame.jac)
         /\ IsNumber(q.F1) /\ IsNumber(q.Jaccard)
         /\ DIsZero(DAdd(frame.prec, frame.rec)) => DIsZero(q.F1)
         /\ frame.union = 0 => DIsZero(q.Jaccard)
    /\ DIsZero(EmptyScores.prec)
    /\ DIsZero(EmptyScores.rec)
    /\ DIsZero(scoresOf(EmptyScores).F1)
    /\ DIsZero(scoresOf(EmptyScores).Jaccard)
    /\ scoresOf(EmptyScores).ExactMatch

\* a scored pair with no common fact: precision + recall = 0
C5_Witness ==
    /\ Scored
    /\ frame.inter = 0
    /\ DIsZero(DAdd(frame.prec, frame.rec))
    /\ DIsZero(q.F1)

(***************************************************************************)
(* Properties of addSlots.                                                 *)
(***************************************************************************)
\* the slot names of the schema
AllSlots ==
    { "location", "dates.checkin", "dates.checkout", "guests.adults", "guests.children",
      "price_max_eur", "stars_min", "rating_min", "family_friendly", "unsupported" }
    \cup {UiSlots[i][1] : i \in DOMAIN UiSlots}

\* a slot's counters in an accumulator; a slot never touched counts 0
StatsOf(a, s) == IF s \in DOMAIN a.slot THEN a.slot[s] ELSE [TP |-> 0, FP |-> 0, FN |-> 0]

KnownSlots(a) == AllSlots \cup DOMAIN a.slot

\* C9: one addSlots(prediction, reference) call adds, for every slot, the
\* number of that slot's facts in P \cap R to its true-positive counter, the
\* number in P \ R to its false-positive counter and the number in R \ P to
\* its false-negative counter, and changes the counters of no other slot.
C9_FactLevelCounts ==
    nAll > 0 =>
        LET P == flatten(qs[nAll].pred)
            R == flatten(qs[nAll].gt)
        IN  \A s \in KnownSlots(accAll) \cup KnownSlots(accPrev) :
              /\ StatsOf(accAll, s).TP
                   = StatsOf(accPrev, s).TP + Cardinality(SlotFacts(P \cap R, s))
              /\ StatsOf(accAll, s).FP
                   = StatsOf(accPrev, s).FP + Cardinality(SlotFacts(P \ R, s))
              /\ StatsOf(accAll, s).FN
                   = StatsOf(accPrev, s).FN + Cardinality(SlotFacts(R \ P, s))

\* a call on an accumulator already holding counts, in which one slot
\* misses two reference values and another slot gains a true positive
C9_Witness ==
    /\ nAll = 2
    /\ accPrev.slot # EmptySlotMap
    /\ StatsOf(accAll, "ui.meals").FN = StatsOf(accPrev, "ui.meals").FN + 2
    /\ StatsOf(accAll, "family_friendly").FP = StatsOf(accPrev, "family_friendly").FP + 1
    /\ StatsOf(accAll, "location").FP = StatsOf(accPrev, "location").FP

RECURSIVE SumStats(_, _)
SumStats(accs, s) ==
    IF accs = <<>> THEN [TP |-> 0, FP |-> 0, FN |-> 0]
    ELSE LET h == StatsOf(Head(accs), s)
             t == SumStats(Tail(accs), s)
         IN  [TP |-> h.TP + t.TP, FP |-> h.FP + t.FP, FN |-> h.FN + t.FN]

AllFed == nAll = Len(qs) /\ nRev = Len(qs) /\ Len(accEach) = Len(qs)

\* C10: slot aggregation is additive and order-independent: one accumulator
\* fed all the queries holds, for every slot, the sum of the counters of
\* fresh accumulators fed one query each, whichever order it was fed in.
C10_Additive ==
    AllFed =>
        \A s \in KnownSlots(accAll) \cup KnownSlots(accRev) :
            /\ StatsOf(accAll, s) = SumStats(accEach, s)
            /\ StatsOf(accRev, s) = StatsOf(accAll, s)

\* two different queries that both count in the same slot
C10_Witness ==
    /\ AllFed
    /\ Len(qs) = 2
    /\ qs[1] # qs[2]
    /\ StatsOf(accEach[1], "ui.meals").FP = 1
    /\ StatsOf(accEach[2], "ui.meals").FN = 2
    /\ StatsOf(accAll, "ui.meals") = [TP |-> 1, FP |-> 1, FN |-> 2]

(***************************************************************************)
(* Vocabulary of the metrics properties.                                   *)
(***************************************************************************)
Finalized == mOut # <<>>

\* the runs the accumulator of SpecMetrics has been fed
FedRuns == SubSeq(mWork, 1, mFed)

\* the facts of a set that count for a slot; the slot "*" takes them all
FactsFor(S, slot) == IF slot = "*" THEN S ELSE SlotFacts(S, slot)

\* over a list of runs: how many predicted facts are reference facts (TP),
\* how many are not (FP), how many reference facts were not predicted (FN)
RECURSIVE Confusion(_, _)
Confusion(runs, slot) ==
    IF runs = <<>> THEN [TP |-> 0, FP |-> 0, FN |-> 0]
    ELSE LET P == FactsFor(flatten(Head(runs).Parse), slot)
             R == FactsFor(flatten(Head(runs).Gt.Truth), slot)
             t == Confusion(Tail(runs), slot)
         IN  [ TP |-> t.TP + Cardinality(P \cap R),
               FP |-> t.FP + Cardinality(P \ R),
               FN |-> t.FN + Cardinality(R \ P) ]

\* x is a number of hundredths no further than half a hundredth from n/d
\* (n >= 0, d >= 0), and 0 when d = 0
NearRatio(x, n, d) ==
    /\ IsNumber(x)
    /\ IF d = 0 THEN DIsZero(x)
       ELSE \E k \in 0..100 : x = DRatio(k, 100) /\ 2 * Abs(100 * n - k * d) <= d

\* precision, recall and their harmonic mean for counters c, to the hundredth;
\* the harmonic mean of TP/(TP+FP) and TP/(TP+FN) is 2TP/(2TP+FP+FN), and 0
\* when both ratios are 0
RatiosOf(m, c) ==
    /\ NearRatio(m.p, c.TP, c.TP + c.FP)
    /\ NearRatio(m.r, c.TP, c.TP + c.FN)
    /\ NearRatio(m.f, 2 * c.TP, 2 * c.TP + c.FP + c.FN)

\* C11: finalize reports micro precision TP/(TP+FP), micro recall TP/(TP+FN)
\* and their harmonic mean from the counts of all facts of all runs, and for
\* each slot the same three ratios from the counts of that slot's facts,
\* each to the hundredth; a ratio whose denominator is zero is reported as
\* 0, every reported value is a number, and a slot no fact touched has no
\* entry.
C11_MicroRatios ==
    Finalized =>
        LET m == mOut[1]
        IN  /\ RatiosOf([p |-> m.SlotPrecision, r |-> m.SlotRecall, f |-> m.F1],
                        Confusion(FedRuns, "*"))
            /\ \A sl \in AllSlots \cup DOMAIN m.PerSlot :
                 LET c == Confusion(FedRuns, sl)
                 IN  IF c.TP + c.FP + c.FN = 0 THEN sl \notin DOMAIN m.PerSlot
                     ELSE /\ sl \in DOMAIN m.PerSlot
                          /\ RatiosOf([p |-> m.PerSlot[sl].Precision,
                                       r |-> m.PerSlot[sl].Recall,
                                       f |-> m.PerSlot[sl].F1], c)
                          /\ m.PerSlot[sl].TP = c.TP
                          /\ m.PerSlot[sl].FP = c.FP
                          /\ m.PerSlot[sl].FN = c.FN

\* finalized metrics with a slot that has only false positives (recall over
\* a zero denominator), one that has only false negatives (precision over a
\* zero denominator) and one whose precision and recall differ
C11_Witness ==
    /\ Finalized
    /\ \E sl \in DOMAIN mOut[1].PerSlot :
         LET st == mOut[1].PerSlot[sl]
         IN  st.TP + st.FN = 0 /\ st.FP > 0 /\ DIsZero(st.Recall)
    /\ \E sl \in DOMAIN mOut[1].PerSlot :
         LET st == mOut[1].PerSlot[sl]
         IN  st.TP + st.FP = 0 /\ st.FN > 0 /\ DIsZero(st.Precision)
    /\ \E sl \in DOMAIN mOut[1].PerSlot :
         LET st == mOut[1].PerSlot[sl]
         IN  st.TP > 0 /\ st.Precision # st.Recall /\ ~DIsZero(st.F1)

\* C12: matchesAnyAcceptable(prediction, acceptable) is true iff some member
\* of the acceptable list flattens to exactly the FactSet of the prediction;
\* so it is false for the empty list, and sharing facts without equality
\* does not count.
C12_ExactMember ==
    kOut # <<>> =>
        (kOut[1] <=> \E i \in DOMAIN kAccepts : flatten(kAccepts[i]) = flatten(kPred))

\* acceptable = [A, B] where only B flattens to the prediction's FactSet, A
\* shares facts with it, and B is not the prediction itself
C12_Witness ==
    /\ kOut = <<TRUE>>
    /\ Len(kAccepts) = 2
    /\ flatten(kAccepts[2]) = flatten(kPred)
    /\ kAccepts[2] # kPred
    /\ flatten(kAccepts[1]) # flatten(kPred)
    /\ flatten(kAccepts[1]) \cap flatten(kPred) # {}

\* the fed runs whose ground-truth entry is marked ambiguous
AmbiguousRuns == {i \in 1..mFed : mWork[i].Gt.Ambiguous}

\* those among them whose parse has the FactSet of an acceptable interpretation
AcceptedRuns ==
    {i \in AmbiguousRuns :
        \E j \in DOMAIN mWork[i].Gt.AcceptableInterpretation :
            flatten(mWork[i].Gt.AcceptableInterpretation[j]) = flatten(mWork[i].Parse)}

\* C13 (as claimed): a provider's ambiguity_handling_rate is
\* ambiguity-accepted / ambiguity-total rounded to 2 decimals, the total
\* counting the provider's evaluated runs whose ground-truth entry is marked
\* ambiguous and the accepted those among them whose parse matches an
\* acceptable interpretation; it is 0 when no ambiguous query was seen.
C13_AmbiguityRate ==
    Finalized =>
        LET tot == Cardinality(AmbiguousRuns)
            acc == Cardinality(AcceptedRuns)
        IN  /\ mAcc.ambTotal = tot
            /\ mAcc.ambAccepted = acc
            /\ mOut[1].AmbiguityHandlingRate
                 = DRatio(IF tot = 0 THEN 0 ELSE Hundredths(acc, tot), 100)

\* what acc.metrics does guarantee: the same, the rate left open where
\* accepted / total lies half way between two hundredths
AmbiguityRateOffTies ==
    Finalized =>
        LET tot == Cardinality(AmbiguousRuns)
            acc == Cardinality(AcceptedRuns)
        IN  /\ mAcc.ambTotal = tot
            /\ mAcc.ambAccepted = acc
            /\ (tot = 0 \/ ~IsTie(acc, tot)) =>
                  mOut[1].AmbiguityHandlingRate
                    = DRatio(IF tot = 0 THEN 0 ELSE Hundredths(acc, tot), 100)

\* 2 matches out of 3 ambiguous queries are reported as 0.67
TwoOfThree ==
    /\ Finalized
    /\ Cardinality(AmbiguousRuns) = 3
    /\ Cardinality(AcceptedRuns) = 2
    /\ mOut[1].AmbiguityHandlingRate = DRatio(67, 100)

\* 23 matches out of 40 ambiguous queries (0.575) are reported as 0.57
RateBelowTie ==
    /\ Finalized
    /\ Cardinality(AmbiguousRuns) = 40
    /\ Cardinality(AcceptedRuns) = 23
    /\ mOut[1].AmbiguityHandlingRate = DRatio(57, 100)

RECURSIVE Gcd(_, _)
Gcd(a, b) == IF b = 0 THEN a ELSE Gcd(b, a % b)

\* the sum of two rationals, in lowest terms
RatAdd(x, y) ==
    LET n == x.num * y.den + y.num * x.den
        d == x.den * y.den
        g == Gcd(n, d)
    IN  F(n \div g, d \div g)

\* the Jaccard index of one run, unrounded: |P \cap R| / |P \cup R|, 0 for
\* two empty FactSets
ExactJaccard(run) ==
    LET P == flatten(run.Parse)
        R == flatten(run.Gt.Truth)
    IN  IF P \cup R = {} THEN F(0, 1)
        ELSE F(Cardinality(P \cap R), Cardinality(P \cup R))

RECURSIVE JaccardSum(_)
JaccardSum(runs) ==
    IF runs = <<>> THEN F(0, 1) ELSE RatAdd(ExactJaccard(Head(runs)), JaccardSum(Tail(runs)))

\* C17 (as claimed): fractions are rounded to 2 decimals only when reported
\* and not while accumulating: the mean Jaccard reported for a provider is
\* the mean of the unrounded per-query Jaccard values, rounded to the
\* hundredth (either neighbour where the mean lies half way).
C17_RoundedOnlyWhenReported ==
    Finalized =>
        LET sum == JaccardSum(FedRuns)
        IN  NearRatio(mOut[1].Jaccard, sum.num, sum.den * mFed)

\* two runs with Jaccard 2/3 and 0: the mean 1/3 is reported as 0.34
MeanOfRoundedValues ==
    /\ Finalized
    /\ mFed = 2
    /\ ExactJaccard(mWork[1]) = F(2, 3)
    /\ ExactJaccard(mWork[2]) = F(0, 3)
    /\ mOut[1].Jaccard = DRatio(34, 100)

(***************************************************************************)
(* Vocabulary of the evaluation properties.                                *)
(***************************************************************************)
\* the corpus has an entry for the query text
HasTruth(query) == \E i \in DOMAIN gtItems : gtItems[i].Query = query

\* the loop has just passed run ri
AfterRun == epc = "loop" /\ ri > 0

\* C14: a stored run whose query text has no ground-truth entry is skipped:
\* passing it leaves both provider accumulators (TP/FP/FN totals, score and
\* latency sums, query count, ambiguity counters, slot stats) and the
\* per-query rows exactly as they were.
C14_NoTruthSkipped ==
    (AfterRun /\ ~HasTruth(results[ri].Query)) =>
        /\ openAcc = ePrev.openAcc
        /\ claudeAcc = ePrev.claudeAcc
        /\ perQuery = ePrev.perQuery

\* a run with both parses and no ground-truth entry was passed, after a run
\* that was scored and has a row, with a non-empty corpus
C14_Witness ==
    /\ AfterRun
    /\ ~HasTruth(results[ri].Query)
    /\ results[ri].Response.OpenAI # <<>>
    /\ results[ri].Response.Claude # <<>>
    /\ gtItems # <<>>
    /\ openAcc.n > 0
    /\ perQuery # <<>>

Responded == epc = "done"

\* a stored run's parse from a provider: <<>> when the provider gave none
ParseOf(run, provider) ==
    IF provider = "openai" THEN run.Response.OpenAI ELSE run.Response.Claude

\* the stored runs a provider is evaluated on: the run's query has a
\* ground-truth entry and the run carries a parse from the provider
EvaluatedRuns(provider) ==
    {i \in DOMAIN results :
        HasTruth(results[i].Query) /\ ParseOf(results[i], provider) # <<>>}

\* C15: a provider's ProviderMetrics is in the snapshot iff some stored run
\* has a ground-truth entry for its query and carries a parse from that
\* provider; when present its count is the number of such runs; a provider
\* that was evaluated on no run is absent, not reported with zeros.
C15_PresentIffEvaluated ==
    Responded =>
        /\ resp[1].OpenAI # <<>> <=> EvaluatedRuns("openai") # {}
        /\ resp[1].OpenAI # <<>> =>
              resp[1].OpenAI[1].Count = Cardinality(EvaluatedRuns("openai"))
        /\ resp[1].Claude # <<>> <=> EvaluatedRuns("claude") # {}
        /\ resp[1].Claude # <<>> =>
              resp[1].Claude[1].Count = Cardinality(EvaluatedRuns("claude"))

\* a snapshot without openai although a stored run carries an openai parse
\* (its query has no ground truth), and with claude counted on one of the
\* two runs that carry a claude parse
C15_Witness ==
    /\ Responded
    /\ resp[1].OpenAI = <<>>
    /\ \E i \in DOMAIN results : results[i].Response.OpenAI # <<>>
    /\ resp[1].Claude # <<>>
    /\ resp[1].Claude[1].Count = 1
    /\ \A i \in DOMAIN results : results[i].Response.Claude # <<>>
    /\ Len(results) = 2

\* the last corpus entry, in corpus order, with the query text
LastEntry(query) ==
    gtItems[CHOOSE i \in DOMAIN gtItems :
              /\ gtItems[i].Query = query
              /\ \A j \in DOMAIN gtItems : j > i => gtItems[j].Query # query]

\* a parse has the FactSet of one of an entry's acceptable interpretations
Matches(parse, entry) ==
    \E j \in DOMAIN entry.AcceptableInterpretation :
        flatten(entry.AcceptableInterpretation[j]) = flatten(parse)

\* accumulator new is accumulator old after one more parse scored against
\* the entry: its truth, its ambiguity flag, its acceptable interpretations
ScoredAgainst(old, new, parse, entry) ==
    LET P == flatten(parse)
        R == flatten(entry.Truth)
    IN  /\ new.n = old.n + 1
        /\ new.tp = old.tp + Cardinality(P \cap R)
        /\ new.fp = old.fp + Cardinality(P \ R)
        /\ new.fn = old.fn + Cardinality(R \ P)
        /\ new.sumExact = old.sumExact + (IF P = R THEN 1 ELSE 0)
        /\ new.ambTotal = old.ambTotal + (IF entry.Ambiguous THEN 1 ELSE 0)
        /\ new.ambAccepted
             = old.ambAccepted + (IF entry.Ambiguous /\ Matches(parse, entry) THEN 1 ELSE 0)

\* C16: when the corpus holds several entries with the same query text, a
\* run with that query is scored against the last of them in corpus order
\* (its truth, its ambiguity flag, its acceptable interpretations), whatever
\* the earlier ones hold; a provider without a parse is not scored.
C16_LastEntryWins ==
    (AfterRun /\ HasTruth(results[ri].Query)) =>
        LET run   == results[ri]
            entry == LastEntry(run.Query)
        IN  /\ IF run.Response.OpenAI # <<>>
               THEN ScoredAgainst(ePrev.openAcc, openAcc, run.Response.OpenAI[1], entry)
               ELSE openAcc = ePrev.openAcc
            /\ IF run.Response.Claude # <<>>
               THEN ScoredAgainst(ePrev.claudeAcc, claudeAcc, run.Response.Claude[1], entry)
               ELSE claudeAcc = ePrev.claudeAcc

\* a run whose query has two corpus entries, the earlier one not ambiguous and
\* with the openai parse as its truth, the later one ambiguous with another
\* truth: scored as ambiguous, accepted and not exact
C16_Witness ==
    /\ AfterRun
    /\ \E i, j \in DOMAIN gtItems :
         /\ i < j
         /\ gtItems[i].Query = results[ri].Query
         /\ gtItems[j].Query = results[ri].Query
         /\ ~gtItems[i].Ambiguous
         /\ results[ri].Response.OpenAI = <<gtItems[i].Truth>>
         /\ gtItems[j].Ambiguous
         /\ \A k \in DOMAIN gtItems : k > j => gtItems[k].Query # results[ri].Query
    /\ openAcc.ambTotal = ePrev.openAcc.ambTotal + 1
    /\ openAcc.ambAccepted = ePrev.openAcc.ambAccepted + 1
    /\ openAcc.sumExact = ePrev.openAcc.sumExact

\* the rows of the response
Rows == resp[1].PerQueryDiff

\* the stored runs that are evaluated and carry the query text and the time
RunsOf(query, time) ==
    {i \in DOMAIN results :
        HasTruth(results[i].Query) /\ results[i].Query = query /\ results[i].Time = time}

\* what a row shows for a provider given the runs merged into the row: the
\* QueryScore of the parse of the latest of them that carries one, with
\* that run's latency; nothing when none carries one
ShownScore(runs, provider) ==
    LET with == {i \in runs : ParseOf(results[i], provider) # <<>>}
    IN  IF with = {} THEN <<>>
        ELSE LET i == CHOOSE k \in with : \A j \in with : j <= k
                 s == scoreAgainstGT(ParseOf(results[i], provider)[1],
                                     LastEntry(results[i].Query).Truth)
             IN  << [s EXCEPT !.LatencyMS = results[i].Latency] >>

\* C18: when per-query detail is requested the response holds exactly one
\* row for each (query text, timestamp) pair among the evaluated runs, each
\* row carries for every provider whose parse is present the QueryScore of
\* that parse and the latency of its run (of the latest such run where
\* several runs share the pair) and nothing for a provider without a parse,
\* and the rows are in ascending timestamp order.
C18_OneRowPerPair ==
    (Responded /\ wantPerQuery) =>
        /\ {<<Rows[i].Query, Rows[i].Time>> : i \in DOMAIN Rows}
             = {<<results[i].Query, results[i].Time>> :
                  i \in {k \in DOMAIN results : HasTruth(results[k].Query)}}
        /\ \A i, j \in DOMAIN Rows :
             (Rows[i].Query = Rows[j].Query /\ Rows[i].Time = Rows[j].Time) => i = j
        /\ \A i \in DOMAIN Rows :
             /\ Rows[i].OpenAI = ShownScore(RunsOf(Rows[i].Query, Rows[i].Time), "openai")
             /\ Rows[i].Claude = ShownScore(RunsOf(Rows[i].Query, Rows[i].Time), "claude")
        /\ \A i, j \in DOMAIN Rows : i < j => Rows[i].Time <= Rows[j].Time

\* two rows for two runs of one query stored later-time first, one of the
\* rows without a claude score, the rows in time order
C18_Witness ==
    /\ Responded
    /\ wantPerQuery
    /\ Len(results) = 2
    /\ results[1].Query = results[2].Query
    /\ results[1].Time > results[2].Time
    /\ Len(Rows) = 2
    /\ Rows[1].Time < Rows[2].Time
    /\ Rows[1].Claude = <<>> /\ Rows[1].OpenAI # <<>>
    /\ Rows[2].Claude # <<>> /\ Rows[2].OpenAI # <<>>

PlainNeverAccepted ==
    /\ Responded
    /\ wantPerQuery
    /\ \E i \in DOMAIN Rows :
         /\ ~Rows[i].Ambiguous /\ ~Rows[i].Accepted
         /\ \E k \in RunsOf(Rows[i].Query, Rows[i].Time) :
              /\ results[k].Response.OpenAI # <<>>
              /\ Matches(results[k].Response.OpenAI[1], LastEntry(Rows[i].Query))

(***************************************************************************)
(* Vocabulary of the extraction properties.                                *)
(***************************************************************************)
Extracted == xOut # <<>>

\* the positions a..b of a text that hold the character c
Occurrences(text, c, a, b) == {i \in a..b : SubSeq(text, i, i) = c}

\* the positions j at which the braces opened from position a on are all
\* closed: as many "}" as "{" in a..j
BalancedEnds(text, a) ==
    {j \in a..Len(text) :
        Cardinality(Occurrences(text, "{", a, j)) = Cardinality(Occurrences(text, "}", a, j))}

Least(S) == CHOOSE i \in S : \A j \in S : i <= j

\* C20: extractJSONObject returns the span that starts at the first "{" of
\* the text (the first one met at depth 0) and ends at the first "}" that
\* brings the depth back to 0, inclusive; it fails when the text has no "{"
\* or the object that its first "{" opens is never closed.  On
\* "Here is your answer: {"a": {"b": 1}} thanks" it returns
\* {"a": {"b": 1}} and on {"a": 1 it fails.
C20_BraceScan ==
    /\ Extracted =>
         LET opens == Occurrences(xIn, "{", 1, Len(xIn))
         IN  IF opens = {} \/ BalancedEnds(xIn, Least(opens)) = {}
             THEN ~xOut[1].ok
             ELSE /\ xOut[1].ok
                  /\ xOut[1].out = SubSeq(xIn, Least(opens),
                                          Least(BalancedEnds(xIn, Least(opens))))
    /\ (Extracted /\ xIn = ProseAroundObject) =>
         xOut[1] = [ok |-> TRUE, out |-> "{\"a\": {\"b\": 1}}"]
    /\ (Extracted /\ xIn = UnterminatedObject) => ~xOut[1].ok

\* the nested object was cut out of the prose around it
C20_Witness ==
    /\ Extracted
    /\ xIn = ProseAroundObject
    /\ xOut[1].ok
    /\ Len(xOut[1].out) < Len(xIn)

\* an object that is never closed, after a complete nested one: no result
UnterminatedFails ==
    /\ Extracted
    /\ xIn = "{{}"
    /\ ~xOut[1].ok

\* a closing brace ahead of the first opening one is passed over
StrayCloseSkipped ==
    /\ Extracted
    /\ xIn = "}{a}"
    /\ xOut[1] = [ok |-> TRUE, out |-> "{a}"]

(***************************************************************************)
(* Vocabulary of the parse-handler properties.                             *)
(***************************************************************************)
\* the latest request has been answered
Answered == pServed > 0

\* the latest request reached CompleteJSON of provider p
Asked(p) == pCalls[p] > 0

\* what provider p answered to the first call
FirstAnswer(p) == pProducer[p][1]

\* provider p answered with a text that holds no balanced object
NoObjectFrom(p) == FirstAnswer(p).err = "" /\ ~extractJSONObject(FirstAnswer(p).raw).ok

\* the latest request appended a run to the log
StoredNow == runLog # runLogPrev

LatestRun == runLog[Len(runLog)]

\* the provider mode of the latest request, as the switch reads it
Mode == ToLower(TrimSpace(pReq.Provider))

(***************************************************************************)
(* C21: when the text a provider returned holds no balanced object, the    *)
(* provider was called once and not again, its parse is absent from the    *)
(* response and from the stored run (no zero-valued or other parse stands  *)
(* in for it), and a request for that provider alone is answered with the  *)
(* failure status 502 and stores nothing.                                  *)
(***************************************************************************)
C21_ExtractFailureSurfaced ==
    \A p \in Providers :
        (Answered /\ Asked(p) /\ NoObjectFrom(p)) =>
            /\ pCalls[p] = 1
            /\ pBody # <<>> => pBody[1][p] = <<>>
            /\ StoredNow => LatestRun.Response[p] = <<>>
            /\ Mode # "both" => (pStatus = 502 /\ pBody = <<>> /\ ~StoredNow)

\* both providers were asked, one returned prose without an object and the
\* other a valid parse: the run is stored with the one parse only
C21_Witness ==
    /\ Answered
    /\ Mode = "both"
    /\ Asked("Claude") /\ NoObjectFrom("Claude")
    /\ pStatus = 200
    /\ StoredNow
    /\ LatestRun.Response.Claude = <<>>
    /\ LatestRun.Response.OpenAI # <<>>
    /\ pBody[1].Claude = <<>>

\* a single-provider request whose completion is an unterminated object
UnterminatedIsBadGateway ==
    /\ Answered
    /\ Mode = ""
    /\ Asked("OpenAI")
    /\ FirstAnswer("OpenAI").raw = "{\"location\": \"Berlin\""
    /\ pStatus = 502
    /\ ~StoredNow

(***************************************************************************)
(* C22: every parse in the response body or in the run log has stars_min   *)
(* in 0..5, rating_min in 0..10 and guest counts of at least 0; a parse    *)
(* the latest request returned is the decoding of the balanced object in   *)
(* the provider's text, all of whose keys are fields of the schema, and    *)
(* the stored run carries the same parses as the response; a text with     *)
(* unbalanced braces, a schema violation or an out-of-range value yields   *)
(* no parse, neither in the response nor in the log.                       *)
(***************************************************************************)
InRange(parse) ==
    /\ parse.StarsMin \in 0..5
    /\ parse.RatingMin.num >= 0 /\ parse.RatingMin.num <= 10 * parse.RatingMin.den
    /\ parse.Guests.Adults >= 0
    /\ parse.Guests.Children >= 0

\* the texts of the providers that are well formed, with their decoding
WellFormed ==
    { <<"Hier: {\"location\": \"Berlin\", \"stars_min\": 4} Ende", Scenario2Pred>>,
      <<"Antwort:\n{\"location\": \"Berlin\", \"stars_min\": 4}\n", Scenario2Pred>>,
      <<"{\"Location\": \"Berlin\", \"price_max_eur\": 120}", Scenario2Truth>>,
      <<"{\"stars_min\": 5, \"rating_min\": 10, \"guests\": {\"adults\": 0}}",
        [ZeroParseResponse EXCEPT !.StarsMin = 5, !.RatingMin = F(10, 1)]>>,
      <<"{\"location\": \"Berlin\", \"unsupported_criteria\": [\"ruhig\"]} {",
        [ZeroParseResponse EXCEPT !.Location = "Berlin",
                                  !.UnsupportedCriteria = <<"ruhig">>]>> }

\* the texts with unbalanced braces, with a schema violation (not JSON, an
\* unknown field, a value of the wrong type) or with a value out of range
Malformed ==
    { "Leider kein Hotel.", "{\"location\": \"Berlin\"", "Ich habe keine Antwort }{",
      "{oops}", "{\"location\": \"a}b\"}", "{\"location\": \"Berlin\", \"mood\": 1}",
      "{\"stars_min\": \"4\"}",
      "{\"stars_min\": 6}", "{\"stars_min\": -1}", "{\"rating_min\": 10.5}",
      "{\"guests\": {\"adults\": -1, \"children\": 2}}" }

\* the parses of a MultiParseResponse
ParsesOf(multi) == {multi[p][1] : p \in {r \in Providers : multi[r] # <<>>}}

UnknownFieldRejected ==
    /\ Answered
    /\ Mode = ""
    /\ Asked("OpenAI")
    /\ FirstAnswer("OpenAI").raw = "{\"location\": \"Berlin\", \"mood\": 1}"
    /\ pStatus = 502
    /\ ~StoredNow

(***************************************************************************)
(* C30: a request appends a run to the log exactly when it is answered     *)
(* with status 200, and then exactly one run, carrying the request's query *)
(* and the parses of the response; every run of the log carries at least   *)
(* one parse; a request for one provider whose client cannot be made or    *)
(* whose completion yields no valid parse stores nothing; a request for    *)
(* both providers is answered with 200 and stores a run exactly when at    *)
(* least one provider with a client returned a well-formed text.           *)
(***************************************************************************)
\* the request passes the checks in front of the provider switch
Admitted == pReq.Method = "POST" /\ pReq.BodyOk /\ TrimSpace(pReq.Query) # ""

\* provider p has a client and its completion decodes to a valid parse
Delivers(p) ==
    /\ p \in pKeys
    /\ FirstAnswer(p).err = ""
    /\ FirstAnswer(p).raw \in {w[1] : w \in WellFormed}

C30_StoredIffSuccess ==
    /\ \A i \in DOMAIN runLog : ParsesOf(runLog[i].Response) # {}
    /\ Answered =>
          /\ StoredNow <=> pStatus = 200
          /\ StoredNow =>
                /\ Len(runLog) = Len(runLogPrev) + 1
                /\ SubSeq(runLog, 1, Len(runLogPrev)) = runLogPrev
                /\ LatestRun.Query = pReq.Query
                /\ LatestRun.Response = pBody[1]
          /\ ~Admitted => ~StoredNow
          /\ (Admitted /\ Mode = "claude") => (StoredNow <=> Delivers("Claude"))
          /\ (Admitted /\ Mode \notin {"claude", "both"}) => (StoredNow <=> Delivers("OpenAI"))
          /\ (Admitted /\ Mode = "both") =>
                (StoredNow <=> (Delivers("OpenAI") \/ Delivers("Claude")))

\* both providers were asked for, one has no API key and the other returned
\* a valid parse: the request succeeds and its run is stored
C30_Witness ==
    /\ Answered
    /\ Admitted
    /\ Mode = "both"
    /\ pKeys = {"Claude"}
    /\ Delivers("Claude")
    /\ pStatus = 200
    /\ StoredNow
    /\ LatestRun.Response.OpenAI = <<>>
    /\ LatestRun.Response.Claude # <<>>

\* both providers failed: 502 and the log as it was, a run stored earlier
\* still in it
BothFailedStoresNothing ==
    /\ Answered
    /\ Admitted
    /\ Mode = "both"
    /\ pKeys = Providers
    /\ pStatus = 502
    /\ runLog = runLogPrev
    /\ Len(runLog) = 1

(***************************************************************************)
(* Vocabulary of the missing-data properties.                              *)
(***************************************************************************)
\* the request has been answered, by the metrics path or by raw mode
Finished == epc \in {"done", "raw"}

\* no stored runs, no ground truth, or a provider without data
MissingData ==
    \/ results = <<>>
    \/ gtItems = <<>>
    \/ \E provider \in {"openai", "claude"} : EvaluatedRuns(provider) = {}

EmptySnapshot == [OpenAI |-> <<>>, Claude |-> <<>>, PerQueryDiff |-> <<>>]

(***************************************************************************)
(* C26 as stated: an evaluation request that meets missing data (no stored *)
(* runs, no ground truth, a provider without data) is answered with        *)
(* success, never with a failure response.                                 *)
(***************************************************************************)
C26_MissingDataNeverFails ==
    (Finished /\ MissingData) => eStatus = 200

(***************************************************************************)
(* C26 as amended: an evaluation request that does not ask for raw         *)
(* passthrough is always answered with status 200 and a snapshot; with no  *)
(* stored runs or no ground truth the snapshot is empty, and a provider    *)
(* without data is absent from it while the other is still reported; a     *)
(* raw request is answered 404 exactly when the results file cannot be     *)
(* read.                                                                   *)
(***************************************************************************)
C26_MetricsModeNeverFails ==
    /\ (~wantRaw /\ eStatus # 0) => (epc = "done" /\ eStatus = 200 /\ resp # <<>>)
    /\ (Responded /\ (results = <<>> \/ gtItems = <<>>)) => resp[1] = EmptySnapshot
    /\ (Responded /\ EvaluatedRuns("openai") = {}) => resp[1].OpenAI = <<>>
    /\ (Responded /\ EvaluatedRuns("claude") = {}) => resp[1].Claude = <<>>
    /\ epc = "raw" => (wantRaw /\ resp = <<>> /\ (eStatus = 404 <=> resultsMissing))

\* stored runs but no ground truth at all, per-query rows asked for: the
\* answer is the empty snapshot with status 200
C26_Witness ==
    /\ Responded
    /\ results # <<>>
    /\ gtItems = <<>>
    /\ wantPerQuery
    /\ eStatus = 200
    /\ resp[1] = EmptySnapshot

\* no results file and no raw flag: status 200 and the empty snapshot
NoFileStillAnswers ==
    /\ Responded
    /\ resultsMissing
    /\ eStatus = 200
    /\ resp[1] = EmptySnapshot

\* a partial snapshot: one provider reported, the other absent
PartialSnapshot ==
    /\ Responded
    /\ resp[1].OpenAI # <<>>
    /\ resp[1].Claude = <<>>

\* raw=1 and no results file: 404
RawWithoutFile ==
    /\ epc = "raw"
    /\ resultsMissing
    /\ eStatus = 404

(***************************************************************************)
(* Vocabulary of the accumulator invariants.                               *)
(***************************************************************************)
\* the sum of one counter over the slots todo of a slot map
RECURSIVE SlotTotal(_, _, _)
SlotTotal(m, todo, field) ==
    IF todo = {} THEN 0
    ELSE LET s == CHOOSE x \in todo : TRUE
         IN  m[s][field] + SlotTotal(m, todo \ {s}, field)

\* C27: the micro totals of the provider's accumulator are the sums of its
\* per-slot counters (tp over TP, fp over FP, fn over FN), and every slot in
\* the map has counted at least one fact.
C27_TotalsAreSlotSums ==
    /\ mAcc.tp = SlotTotal(mAcc.slot, DOMAIN mAcc.slot, "TP")
    /\ mAcc.fp = SlotTotal(mAcc.slot, DOMAIN mAcc.slot, "FP")
    /\ mAcc.fn = SlotTotal(mAcc.slot, DOMAIN mAcc.slot, "FN")
    /\ \A s \in DOMAIN mAcc.slot :
          mAcc.slot[s].TP + mAcc.slot[s].FP + mAcc.slot[s].FN >= 1

\* three kinds of run fed: true positives, false positives and false
\* negatives spread over five slots or more
C27_Witness ==
    /\ mFed >= 3
    /\ Cardinality(DOMAIN mAcc.slot) >= 5
    /\ mAcc.tp >= 2 /\ mAcc.fp >= 2 /\ mAcc.fn >= 2
    /\ \E s \in DOMAIN mAcc.slot : mAcc.slot[s].TP = 0
    /\ \E s \in DOMAIN mAcc.slot : mAcc.slot[s].FN >= 2

\* a value of the closed interval from 0 to 1 (a float64 of the model has
\* no sign: m * 2^e with a significand of 53 bits, or zero)
InUnitInterval(x) ==
    /\ ~x.nan
    /\ (DIsZero(x) \/ x.e < DFromInt(1).e \/ x = DFromInt(1))

AccBounded(a) ==
    /\ 0 <= a.ambAccepted /\ a.ambAccepted <= a.ambTotal /\ a.ambTotal <= a.n
    /\ 0 <= a.sumExact /\ a.sumExact <= a.n

\* C28: at every point of the loop each provider's accumulator has
\* 0 <= ambAccepted <= ambTotal <= n and 0 <= sumExact <= n, and the
\* ambiguity_handling_rate and exact_match of every reported provider lie
\* between 0 and 1.
C28_CountersBounded ==
    /\ AccBounded(openAcc)
    /\ AccBounded(claudeAcc)
    /\ Responded =>
          \A m \in {resp[1].OpenAI, resp[1].Claude} \ {<<>>} :
              /\ InUnitInterval(m[1].AmbiguityHandlingRate)
              /\ InUnitInterval(m[1].ExactMatch)

\* a provider with two runs on ambiguous entries, one of them accepted and
\* one of them exact: rate and exact_match strictly between 0 and 1
C28_Witness ==
    /\ Responded
    /\ \E a \in {openAcc, claudeAcc} :
          /\ a.n = 2
          /\ a.ambTotal = 2
          /\ a.ambAccepted = 1
          /\ a.sumExact = 1
    /\ \E m \in {resp[1].OpenAI, resp[1].Claude} \ {<<>>} :
          /\ m[1].AmbiguityHandlingRate = DRatio(1, 2)
          /\ m[1].ExactMatch = DRatio(1, 2)

\* every run counted as ambiguous and as accepted: the rate is 1
RateOfOne ==
    /\ Responded
    /\ \E m \in {resp[1].OpenAI, resp[1].Claude} \ {<<>>} :
          m[1].AmbiguityHandlingRate = DFromInt(1)

\* C29: the family_friendly slot of the provider's accumulator counts one
\* true positive or one false positive per evaluated run (TP + FP = n) and
\* as many false negatives as false positives; before the first run the
\* slot is not in the map.
C29_FamilyFriendlySlot ==
    /\ mAcc.n = mFed
    /\ mAcc.n = 0 => "family_friendly" \notin DOMAIN mAcc.slot
    /\ mAcc.n > 0 =>
          /\ "family_friendly" \in DOMAIN mAcc.slot
          /\ mAcc.slot["family_friendly"].TP + mAcc.slot["family_friendly"].FP = mAcc.n
          /\ mAcc.slot["family_friendly"].FP = mAcc.slot["family_friendly"].FN

\* runs that agree with the truth on family_friendly and runs that do not
C29_Witness ==
    /\ mAcc.n >= 3
    /\ StatsOf(mAcc, "family_friendly").TP >= 2
    /\ StatsOf(mAcc, "family_friendly").FP >= 1
    /\ StatsOf(mAcc, "family_friendly").FN >= 1


(***************************************************************************)
(* Vocabulary of the properties of the shared results file.                *)
(***************************************************************************)
\* the StoreResult calls that have returned
Returned == {w \in Writers : sPc[w] = "returned"}

\* no StoreResult call is between its read and its return
Quiescent == \A w \in Writers : sPc[w] \in {"call", "returned"}

\* entry r is the one the call of w appended
EntryOf(r, w) ==
    /\ r.Query = sArgs[w].Query
    /\ r.Response = sArgs[w].Response
    /\ r.Latency = sArgs[w].Latency

\* runs is log0 followed by exactly one entry for each call of done
HoldsAll(runs, done) ==
    /\ Len(runs) = Len(log0) + Cardinality(done)
    /\ SubSeq(runs, 1, Len(log0)) = log0
    /\ \E at \in [done -> (Len(log0) + 1)..Len(runs)] :
         /\ \A v, w \in done : at[v] = at[w] => v = w
         /\ \A w \in done : EntryOf(runs[at[w]], w)

\* C23: once the StoreResult calls in flight have returned, the results file
\* decodes to the earlier log followed by one entry for every returned
\* call, and an evaluation that started after a call had returned has
\* read that call's entry.
C23_AppendOnlyLog ==
    /\ Quiescent => (file.ok /\ HoldsAll(file.runs, Returned))
    /\ vPc # "idle" => \A w \in vAfter : \E i \in DOMAIN vSaw : EntryOf(vSaw[i], w)

\* C24: what an evaluation request has read is a log the results file has
\* held, the earlier one or one a completed write left there, and no step
\* of the evaluation changes the results file or the ground-truth file.
C24_ConsistentView ==
    /\ [](vPc # "idle" => vSaw \in fileHist)
    /\ [][vPc' # vPc => UNCHANGED <<file, fileGt>>]_vars


(***************************************************************************)
(* Vocabulary of the properties of concurrent evaluation.                  *)
(***************************************************************************)
\* the requests that have allocated their accumulators
Started == {r \in Evaluators : cPc[r] # "start"}

\* the references request r holds
RefsOf(r) == {cRefs[r].openAcc, cRefs[r].claudeAcc}

\* C25: a request that has gone through no run yet holds two accumulators
\* with nothing counted, no accumulator is referenced twice, by two
\* requests or by one, and the response of every finished request is the
\* one evalHandler gives for the results and the corpus when it runs alone.
C25_RequestScoped ==
    /\ \A r \in Started :
         /\ cI[r] = 0 => \A a \in RefsOf(r) : heap[a] = newAcc
         /\ cRefs[r].openAcc # cRefs[r].claudeAcc
         /\ \A t \in Started \ {r} : RefsOf(r) \cap RefsOf(t) = {}
    /\ \A r \in Evaluators : cPc[r] = "done" => cResp[r] = <<evalHandler(cRuns, cGt)>>

\* C25 witness: a request has responded with counts of both providers
\* while another was between two runs with counts of its own.
C25_Witness ==
    \E r, t \in Evaluators :
        /\ cPc[r] = "done"
        /\ cResp[r][1].OpenAI # <<>>
        /\ cResp[r][1].Claude # <<>>
        /\ cPc[t] = "loop"
        /\ cI[t] = 1
        /\ Len(cRuns) = 2
        /\ heap[cRefs[t].openAcc] # newAcc

====
